---- MODULE Spec2Model ----
(***************************************************************************)
(* Model of the PCAP traffic parser (examples/parse_pcap):                 *)
(*   pcap_parser.py    PCAPParser      frame classifier, batch extractor   *)
(*   database.py       DatabaseHandler row construction and read-back      *)
(*   json_exporter.py  JSONExporter    filter engine and aggregator        *)
(*                                                                         *)
(* Python values are represented as follows.                               *)
(*   None            the empty tuple <<>>; a nullable value v is <<v>>     *)
(*   dict            a function whose DOMAIN is the set of keys            *)
(*   ordered dict    (the counters of the aggregator) a sequence of        *)
(*                   <<key, count>> pairs in insertion order               *)
(*   list            a sequence                                            *)
(*   datetime        [datetime |-> seconds]                                *)
(*   JSON text       [json |-> sequence of <<key, value>> pairs]           *)
(***************************************************************************)
EXTENDS Integers, Sequences, FiniteSets, TLC

VARIABLES
    pc,                     \* which operation is pending or has returned
    packet,                 \* _extract_packet_info: the frame handed in
    packet_info,            \* _extract_packet_info: <<returned value>>
    pcap,                   \* parse_pcap_file: the file's frames, None if unreadable
    max_packets_per_file,   \* PCAPParser.max_packets_per_file
    parsed,                 \* parse_pcap_file: <<returned list>>
    packets_data,           \* JSONExporter: the list handed in (the caller's list)
    filters,                \* _apply_filters: the filter dict
    filtered_packets,       \* _apply_filters: <<returned list>> or a raised fault
    refiltered,             \* _apply_filters applied again to its own result
    stats,                  \* _calculate_statistics: <<returned dict>>
    directory,              \* parse_directory: the listing, None if the path is missing
    all_packets,            \* parse_directory: <<returned list>>
    store,                  \* the committed rows of table traffic_packets
    store_before,           \* the committed rows when save_to_database was called
    batch_size,             \* save_to_database: the batch_size argument, 0 for None
    batch_start,            \* save_to_database: the loop variable i
    save_result,            \* save_to_database: <<returned value>>
    output_file,            \* JSONExporter.output_file: the path of the export file
    files,                  \* the files on disk: their content by path
    export_result,          \* the exporter call: <<returned value>>
    include_statistics,     \* export_to_json: the include_statistics argument
    unwritable,             \* the paths at which open(path, 'w') raises
    pipeline_stage,         \* run_full_pipeline: the stage it is at
    pipeline_result,        \* run_full_pipeline: <<returned value>>
    permuted,               \* the aggregator's input in another order
    stats_permuted          \* _calculate_statistics(permuted): <<returned dict>>

vars == <<pc, packet, packet_info, pcap, max_packets_per_file, parsed,
          packets_data, filters, filtered_packets, refiltered, stats,
          directory, all_packets, store, store_before, batch_size, batch_start,
          save_result, output_file, files, export_result,
          include_statistics, unwritable,
          pipeline_stage, pipeline_result, permuted, stats_permuted>>

classifyVars == <<packet, packet_info>>
extractVars  == <<pcap, max_packets_per_file, parsed>>
filterVars   == <<filters, filtered_packets, refiltered>>
statsVars    == <<stats>>
directoryVars == <<directory, all_packets>>
saveVars     == <<store, store_before, batch_size, batch_start, save_result>>
exportVars   == <<output_file, files, export_result, include_statistics, unwritable>>
pipelineVars == <<pipeline_stage, pipeline_result>>
permuteVars  == <<permuted, stats_permuted>>
appVars      == <<directoryVars, saveVars, exportVars, pipelineVars, permuteVars>>

-----------------------------------------------------------------------------
(* Bounds of the model *)

MaxLayers == 3      \* layers in a frame handed to the classifier
MaxFrames == 3      \* frames in one capture file
MaxCap == 3         \* largest max_packets_per_file tried
MaxRecords == 2     \* records handed to the filter engine
MaxDistinct == 11   \* distinct endpoints in the aggregator's input
MaxExtra == 2       \* further records in the aggregator's input

-----------------------------------------------------------------------------
(* Python values *)

None == <<>>
Some(v) == <<v>>

Min(a, b) == IF a <= b THEN a ELSE b

\* d.get(key): the value, or None when the key is missing
Get(d, key) == IF key \in DOMAIN d THEN d[key] ELSE None

\* d.update(e): the keys of e win
Update(d, e) == e @@ d

\* datetime.fromtimestamp(float(t))
fromtimestamp(t) == [datetime |-> t]

\* datetime.isoformat(): ISO-8601 text
isoformat(d) == "2024-01-01T00:00:0" \o ToString(d.datetime)

\* The datetimes whose ISO text the model can write (one digit of seconds)
Datetimes == {fromtimestamp(t) : t \in 0..9}

\* datetime.fromisoformat(s): the datetime whose ISO text is s; None stands
\* for the ValueError raised on text that is no ISO date
fromisoformat(s) ==
    IF \E d \in Datetimes : isoformat(d) = s
    THEN Some(CHOOSE d \in Datetimes : isoformat(d) = s)
    ELSE None

\* json.dumps of a dict given as its items in insertion order
json_dumps(items) == [json |-> items]

\* json.loads: the dict of a JSON object
json_loads(text) ==
    [k \in {text.json[i][1] : i \in 1..Len(text.json)} |->
        LET i == CHOOSE j \in 1..Len(text.json) : text.json[j][1] = k
        IN  text.json[i][2]]

-----------------------------------------------------------------------------
(* Frames as the capture decoder (scapy) hands them over *)

Ether == [name |-> "Ethernet"]
ARP == [name |-> "ARP"]
Raw == [name |-> "Raw"]
IPLayer(s, d) == [name |-> "IP", src |-> s, dst |-> d]
IPv6Layer(s, d) == [name |-> "IPv6", src |-> s, dst |-> d]
TCPLayer(sp, dp, fl) ==
    [name |-> "TCP", sport |-> sp, dport |-> dp, flags |-> fl,
     seq |-> 1000, ack |-> 2000, window |-> 8192]
UDPLayer(sp, dp) ==
    [name |-> "UDP", sport |-> sp, dport |-> dp, len |-> 16, chksum |-> 4660]
ICMPLayer(t, c) == [name |-> "ICMP", type |-> t, code |-> c]

\* a decoded frame: capture time (None when the decoder left it unset),
\* total byte length, layers outermost first
Frame(t, n, ls) == [time |-> t, len |-> n, layers |-> ls]

\* packet.haslayer(cls)
haslayer(p, cls) == \E i \in 1..Len(p.layers) : p.layers[i].name = cls

\* packet[cls]: the first layer of that class
getlayer(p, cls) ==
    LET i == CHOOSE j \in 1..Len(p.layers) :
                 /\ p.layers[j].name = cls
                 /\ \A h \in 1..(j - 1) : p.layers[h].name # cls
    IN  p.layers[i]

\* [layer.name for layer in packet.layers()]
LayerNames(p) == [i \in 1..Len(p.layers) |-> p.layers[i].name]

RECURSIVE JoinNames(_)
JoinNames(names) ==
    IF names = <<>> THEN ""
    ELSE IF Len(names) = 1 THEN names[1]
    ELSE names[1] \o " / " \o JoinNames(Tail(names))

\* packet.summary(): the layer names joined by " / "
summary(p) == JoinNames(LayerNames(p))

\* str(tcp_layer.flags): the flag letters of the flag bits
FlagStr(fl) ==
    CASE fl = 2 -> "S"
      [] fl = 16 -> "A"
      [] fl = 18 -> "SA"
      [] OTHER -> ""

-----------------------------------------------------------------------------
(* pcap_parser.py: PCAPParser._extract_packet_info *)

\* a plausible slip: the size of the payload above the link layer header
BaseInfoPayloadSize(p, file_name) ==
    [timestamp |-> fromtimestamp(p.time[1]),
     packet_size |-> IF p.len >= 14 THEN p.len - 14 ELSE p.len,
     file_name |-> file_name,
     packet_data |-> None]

\* lines 69-74: the fields every record starts with
BaseInfo(p, file_name) ==
    [timestamp |-> fromtimestamp(p.time[1]),
     packet_size |-> p.len,
     file_name |-> file_name,
     packet_data |-> None]

\* lines 86-98: TCP over IPv4
ExtractTCP(p, d) ==
    LET tcp_layer == getlayer(p, "TCP")
    IN  Update(d, [source_port |-> tcp_layer.sport,
                   destination_port |-> tcp_layer.dport,
                   protocol |-> "TCP",
                   packet_data |-> Some(json_dumps(
                       << <<"tcp_flags", FlagStr(tcp_layer.flags)>>,
                          <<"tcp_seq", tcp_layer.seq>>,
                          <<"tcp_ack", tcp_layer.ack>>,
                          <<"tcp_window", tcp_layer.window>> >>))])

\* lines 100-110: UDP over IPv4
ExtractUDP(p, d) ==
    LET udp_layer == getlayer(p, "UDP")
    IN  Update(d, [source_port |-> udp_layer.sport,
                   destination_port |-> udp_layer.dport,
                   protocol |-> "UDP",
                   packet_data |-> Some(json_dumps(
                       << <<"udp_length", udp_layer.len>>,
                          <<"udp_checksum", udp_layer.chksum>> >>))])

\* lines 112-120: ICMP over IPv4
ExtractICMP(p, d) ==
    LET icmp_layer == getlayer(p, "ICMP")
    IN  Update(d, [protocol |-> "ICMP",
                   packet_data |-> Some(json_dumps(
                       << <<"icmp_type", icmp_layer.type>>,
                          <<"icmp_code", icmp_layer.code>> >>))])

\* a plausible slip: the transport tests in the wrong order (UDP before TCP)
TransportIPv4UdpFirst(p, d) ==
    IF haslayer(p, "UDP") THEN ExtractUDP(p, d)
    ELSE IF haslayer(p, "TCP") THEN ExtractTCP(p, d)
    ELSE IF haslayer(p, "ICMP") THEN ExtractICMP(p, d)
    ELSE d

\* lines 85-120: the if / elif / elif chain under the IPv4 branch
TransportIPv4(p, d) ==
    IF haslayer(p, "TCP") THEN ExtractTCP(p, d)
    ELSE IF haslayer(p, "UDP") THEN ExtractUDP(p, d)
    ELSE IF haslayer(p, "ICMP") THEN ExtractICMP(p, d)
    ELSE d

\* lines 77-120: the IPv4 branch
ExtractIPv4(p, d) ==
    LET ip_layer == getlayer(p, "IP")
    IN  TransportIPv4(p, Update(d, [source_ip |-> ip_layer.src,
                                    destination_ip |-> ip_layer.dst,
                                    protocol |-> "IP"]))

\* a plausible slip: the IPv6 branch reusing the transport chain of IPv4
ExtractIPv6AsIPv4(p, d) ==
    LET ipv6_layer == getlayer(p, "IPv6")
    IN  TransportIPv4(p, Update(d, [source_ip |-> ipv6_layer.src,
                                    destination_ip |-> ipv6_layer.dst,
                                    protocol |-> "IPv6"]))

\* lines 122-144: the IPv6 branch (no packet_data is written here)
ExtractIPv6(p, d) ==
    LET ipv6_layer == getlayer(p, "IPv6")
        d6 == Update(d, [source_ip |-> ipv6_layer.src,
                         destination_ip |-> ipv6_layer.dst,
                         protocol |-> "IPv6"])
    IN  IF haslayer(p, "TCP")
        THEN Update(d6, [source_port |-> getlayer(p, "TCP").sport,
                         destination_port |-> getlayer(p, "TCP").dport,
                         protocol |-> "TCPv6"])
        ELSE IF haslayer(p, "UDP")
        THEN Update(d6, [source_port |-> getlayer(p, "UDP").sport,
                         destination_port |-> getlayer(p, "UDP").dport,
                         protocol |-> "UDPv6"])
        ELSE d6

\* a plausible slip: the layer names listed innermost first
ExtractOtherInnermostFirst(p, d) ==
    LET names == LayerNames(p)
    IN  Update(d, [protocol |-> "Other",
                   packet_data |-> Some(json_dumps(
                       << <<"packet_summary", summary(p)>>,
                          <<"packet_layers",
                            [i \in 1..Len(names) |-> names[Len(names) + 1 - i]]>> >>))])

\* lines 145-153: no IPv4 and no IPv6 layer
ExtractOther(p, d) ==
    Update(d, [protocol |-> "Other",
               packet_data |-> Some(json_dumps(
                   << <<"packet_summary", summary(p)>>,
                      <<"packet_layers", LayerNames(p)>> >>))])

\* lines 57-159.  float(packet.time) raises on a frame without a capture
\* time; the except clause of line 157 turns every fault into None.
_extract_packet_info(p, file_name) ==
    IF p.time = None THEN None
    ELSE LET d == BaseInfo(p, file_name)
         IN  Some(IF haslayer(p, "IP") THEN ExtractIPv4(p, d)
                  ELSE IF haslayer(p, "IPv6") THEN ExtractIPv6(p, d)
                  ELSE ExtractOther(p, d))

-----------------------------------------------------------------------------
(* pcap_parser.py: PCAPParser.parse_pcap_file *)

\* os.path.basename(file_path) of the one file the model reads
FileName == "capture.pcap"

\* a plausible slip: the slice keeps one frame more than the cap
LimitPacketsOffByOne(packets, cap) ==
    IF cap # 0 /\ Len(packets) > cap
    THEN SubSeq(packets, 1, Min(cap + 1, Len(packets)))
    ELSE packets

\* lines 34-37: "if self.max_packets_per_file and len(packets) > ..."
LimitPackets(packets, cap) ==
    IF cap # 0 /\ Len(packets) > cap
    THEN SubSeq(packets, 1, cap)
    ELSE packets

\* a plausible slip: no try around the extraction of one frame, so the
\* first fault ends the loop in the except clause of line 52
RECURSIVE ExtractEachUntilFault(_, _)
ExtractEachUntilFault(packets, file_name) ==
    IF packets = <<>> THEN <<>>
    ELSE LET packet_data == _extract_packet_info(Head(packets), file_name)
         IN  IF packet_data = None THEN <<>>
             ELSE <<packet_data[1]>> \o ExtractEachUntilFault(Tail(packets), file_name)

\* lines 41-48: one record per frame whose extraction returned a dict
RECURSIVE ExtractEach(_, _)
ExtractEach(packets, file_name) ==
    IF packets = <<>> THEN <<>>
    ELSE LET packet_data == _extract_packet_info(Head(packets), file_name)
         IN  (IF packet_data # None THEN <<packet_data[1]>> ELSE <<>>)
                 \o ExtractEach(Tail(packets), file_name)

\* lines 16-55.  file is None when rdpcap raises: the except clause of
\* line 52 logs it and the empty list is returned.
parse_pcap_file(file, file_name, cap) ==
    IF file = None THEN <<>>
    ELSE ExtractEach(LimitPackets(file[1], cap), file_name)

-----------------------------------------------------------------------------
(* database.py: the stored row and its read-back *)

\* a nullable column: None when the record has no such key
Column(data, key) == IF key \in DOMAIN data THEN Some(data[key]) ELSE None

\* lines 9-24, 49: TrafficPacket(**data) with its autoincrement id.
\* created_at (the insertion clock) is read by neither engine and is left out.
TrafficPacket(data, id) ==
    [id |-> id,
     timestamp |-> data.timestamp,
     source_ip |-> Column(data, "source_ip"),
     destination_ip |-> Column(data, "destination_ip"),
     source_port |-> Column(data, "source_port"),
     destination_port |-> Column(data, "destination_port"),
     protocol |-> Column(data, "protocol"),
     packet_size |-> data.packet_size,
     packet_data |-> data.packet_data,
     file_name |-> data.file_name]

\* lines 47-51: add_packets_batch on an empty table
add_packets_batch(batch) == [i \in 1..Len(batch) |-> TrafficPacket(batch[i], i)]

\* lines 72-84: the dict of one row
RowDict(row) ==
    [id |-> row.id,
     timestamp |-> isoformat(row.timestamp),
     source_ip |-> row.source_ip,
     destination_ip |-> row.destination_ip,
     source_port |-> row.source_port,
     destination_port |-> row.destination_port,
     protocol |-> row.protocol,
     packet_size |-> row.packet_size,
     packet_data |-> IF row.packet_data # None
                     THEN Some(json_loads(row.packet_data[1]))
                     ELSE None,
     file_name |-> row.file_name]

\* lines 68-86: export_to_dict
export_to_dict(rows) == [i \in 1..Len(rows) |-> RowDict(rows[i])]

\* the records the exporter reads back for a list of frames
StoredRecords(frames) ==
    export_to_dict(add_packets_batch(ExtractEach(frames, FileName)))

-----------------------------------------------------------------------------
(* json_exporter.py: JSONExporter._apply_filters *)

\* the outcome of a call: a returned value, or the exception that left it
Returned(v) == [raised |-> None, value |-> Some(v)]
Raised(e) == [raised |-> Some(e), value |-> None]

\* "'key' in filters and filters['key']" for a text value and for a number
HasText(f, key) == key \in DOMAIN f /\ f[key] # ""
HasNumber(f, key) == key \in DOMAIN f /\ f[key] # 0

\* a plausible slip: the records that fail the test removed from the list
\* while a for loop walks it by index, which skips the record that follows
\* each removed one
RECURSIVE RemoveWhileIterating(_, _, _)
RemoveWhileIterating(ps, i, f) ==
    IF i > Len(ps) THEN ps
    ELSE IF Get(ps[i], "protocol") = Some(f["protocol"])
    THEN RemoveWhileIterating(ps, i + 1, f)
    ELSE RemoveWhileIterating(SubSeq(ps, 1, i - 1) \o SubSeq(ps, i + 1, Len(ps)),
                              i + 1, f)

FilterProtocolRemoving(ps, f) ==
    IF "protocol" \in DOMAIN f /\ f["protocol"] # ""
    THEN RemoveWhileIterating(ps, 1, f)
    ELSE ps

\* lines 108-111
FilterProtocol(ps, f) ==
    IF HasText(f, "protocol")
    THEN SelectSeq(ps, LAMBDA p : Get(p, "protocol") = Some(f["protocol"]))
    ELSE ps

\* a plausible slip: "and" where the code has "or"
FilterAddressBothEnds(ps, f) ==
    IF HasText(f, "ip_address")
    THEN SelectSeq(ps, LAMBDA p : /\ Get(p, "source_ip") = Some(f["ip_address"])
                                  /\ Get(p, "destination_ip") = Some(f["ip_address"]))
    ELSE ps

\* lines 113-117
FilterAddress(ps, f) ==
    IF HasText(f, "ip_address")
    THEN SelectSeq(ps, LAMBDA p : \/ Get(p, "source_ip") = Some(f["ip_address"])
                                  \/ Get(p, "destination_ip") = Some(f["ip_address"]))
    ELSE ps

\* lines 119-123
FilterPort(ps, f) ==
    IF HasNumber(f, "port")
    THEN SelectSeq(ps, LAMBDA p : \/ Get(p, "source_port") = Some(f["port"])
                                  \/ Get(p, "destination_port") = Some(f["port"]))
    ELSE ps

\* p.get('packet_size', 0)
PacketSize(p) == IF "packet_size" \in DOMAIN p THEN p["packet_size"] ELSE 0

\* lines 125-128
FilterMinSize(ps, f) ==
    IF HasNumber(f, "min_size")
    THEN SelectSeq(ps, LAMBDA p : PacketSize(p) >= f["min_size"])
    ELSE ps

\* lines 130-132
FilterMaxSize(ps, f) ==
    IF HasNumber(f, "max_size")
    THEN SelectSeq(ps, LAMBDA p : PacketSize(p) <= f["max_size"])
    ELSE ps

\* datetime.fromisoformat(p.get('timestamp', ''))
Timestamp(p) == fromisoformat(IF "timestamp" \in DOMAIN p THEN p["timestamp"] ELSE "")

\* a time bound that is used and whose text fromisoformat rejects
BadBound(f, key) == HasText(f, key) /\ fromisoformat(f[key]) = None

\* a record of the list whose timestamp fromisoformat rejects
BadTimestamp(ps, f, key) ==
    HasText(f, key) /\ \E i \in 1..Len(ps) : Timestamp(ps[i]) = None

\* lines 135-138, once the bound has parsed
FilterStartTime(ps, f) ==
    IF HasText(f, "start_time")
    THEN LET start_time == fromisoformat(f["start_time"])[1]
         IN  SelectSeq(ps, LAMBDA p : Timestamp(p)[1].datetime >= start_time.datetime)
    ELSE ps

\* lines 140-143, once the bound has parsed
FilterEndTime(ps, f) ==
    IF HasText(f, "end_time")
    THEN LET end_time == fromisoformat(f["end_time"])[1]
         IN  SelectSeq(ps, LAMBDA p : Timestamp(p)[1].datetime <= end_time.datetime)
    ELSE ps

\* lines 106-132: the copy and the five filters that cannot raise
FilterFields(ps, f) ==
    FilterMaxSize(FilterMinSize(FilterPort(FilterAddress(FilterProtocol(ps, f), f), f), f), f)

\* a plausible slip: the copy left out and the list filtered in place
CallerListInPlace(ps, f) ==
    FilterMaxSize(FilterMinSize(FilterPort(FilterAddress(FilterProtocol(ps, f), f), f), f), f)

\* line 106: the filters work on packets_data.copy() and every list
\* comprehension builds a new list, so the caller's list is left as it was
CallerList(ps, f) == ps

\* lines 94-145
_apply_filters(ps, f) ==
    LET f5 == FilterFields(ps, f)
    IN  IF BadBound(f, "start_time") \/ BadTimestamp(f5, f, "start_time")
        THEN Raised("ValueError")
        ELSE LET f6 == FilterStartTime(f5, f)
             IN  IF BadBound(f, "end_time") \/ BadTimestamp(f6, f, "end_time")
                 THEN Raised("ValueError")
                 ELSE Returned(FilterEndTime(f6, f))

-----------------------------------------------------------------------------
(* json_exporter.py: JSONExporter._calculate_statistics *)

TopN == 10

\* counter[key] = counter.get(key, 0) + 1 on a dict in insertion order
Incr(counter, key) ==
    IF \E i \in 1..Len(counter) : counter[i][1] = key
    THEN [i \in 1..Len(counter) |->
             IF counter[i][1] = key THEN <<key, counter[i][2] + 1>> ELSE counter[i]]
    ELSE Append(counter, <<key, 1>>)

\* packet.get('protocol', 'Unknown'); a NULL column reads back as None
ProtocolKey(p) ==
    IF "protocol" \notin DOMAIN p THEN "Unknown"
    ELSE IF p["protocol"] = None THEN "None"
    ELSE p["protocol"][1]

\* lines 202-205
RECURSIVE CountProtocols(_, _)
CountProtocols(ps, counter) ==
    IF ps = <<>> THEN counter
    ELSE CountProtocols(Tail(ps), Incr(counter, ProtocolKey(Head(ps))))

\* "if packet.get(key):" for an address: present and not the empty text
TruthyText(p, key) == Get(p, key) # None /\ Get(p, key) # Some("")

\* "if packet.get(key):" for a port: present and not 0
TruthyNumber(p, key) == Get(p, key) # None /\ Get(p, key) # Some(0)

\* lines 208-214: one of the two address counters
RECURSIVE CountAddresses(_, _, _)
CountAddresses(ps, key, counter) ==
    IF ps = <<>> THEN counter
    ELSE CountAddresses(Tail(ps), key,
             IF TruthyText(Head(ps), key)
             THEN Incr(counter, Head(ps)[key][1])
             ELSE counter)

\* lines 217-223: one of the two port counters
RECURSIVE CountPorts(_, _, _)
CountPorts(ps, key, counter) ==
    IF ps = <<>> THEN counter
    ELSE CountPorts(Tail(ps), key,
             IF TruthyNumber(Head(ps), key)
             THEN Incr(counter, Head(ps)[key][1])
             ELSE counter)

\* one item put into a list sorted by count, largest first, behind the items
\* of the same count
InsertByCount(sorted, item) ==
    LET k == Cardinality({i \in 1..Len(sorted) : sorted[i][2] >= item[2]})
    IN  SubSeq(sorted, 1, k) \o <<item>> \o SubSeq(sorted, k + 1, Len(sorted))

\* sorted(counter.items(), key=lambda x: x[1], reverse=True): a stable sort,
\* so items of equal count keep the order of the dict
RECURSIVE SortedByCount(_)
SortedByCount(items) ==
    IF items = <<>> THEN <<>>
    ELSE InsertByCount(SortedByCount(SubSeq(items, 1, Len(items) - 1)),
                       items[Len(items)])

\* a plausible slip: the first ten items of the dict, the sort left out
TopFirstSeen(counter) == SubSeq(counter, 1, Min(TopN, Len(counter)))

\* a plausible slip: the slice [:10] left out
TopAll(counter) == SortedByCount(counter)

\* lines 231-234: dict(sorted(...)[:10])
Top(counter) ==
    LET sorted == SortedByCount(counter)
    IN  SubSeq(sorted, 1, Min(TopN, Len(sorted)))

\* line 226
PacketSizes(ps) == [i \in 1..Len(ps) |-> PacketSize(ps[i])]

RECURSIVE Sum(_)
Sum(xs) == IF xs = <<>> THEN 0 ELSE Head(xs) + Sum(Tail(xs))

MinOf(xs) == CHOOSE x \in {xs[i] : i \in 1..Len(xs)} :
                 \A i \in 1..Len(xs) : x <= xs[i]
\* a plausible slip: the last size taken for the largest
MaxOfLast(xs) == xs[Len(xs)]

MaxOf(xs) == CHOOSE x \in {xs[i] : i \in 1..Len(xs)} :
                 \A i \in 1..Len(xs) : x >= xs[i]

RECURSIVE GCD(_, _)
GCD(a, b) == IF b = 0 THEN a ELSE GCD(b, a % b)

\* a / b, the true division of two integers, as the fraction in lowest terms
TrueDiv(a, b) ==
    LET g == GCD(a, b)
    IN  [num |-> a \div g, den |-> b \div g]

\* a plausible slip: floor division where the code divides truly
FloorAverage(sizes) == [num |-> Sum(sizes) \div Len(sizes), den |-> 1]

\* line 238
Average(sizes) == TrueDiv(Sum(sizes), Len(sizes))

\* lines 235-240
SizeStats(sizes) ==
    [min |-> IF sizes # <<>> THEN MinOf(sizes) ELSE 0,
     max |-> IF sizes # <<>> THEN MaxOf(sizes) ELSE 0,
     average |-> IF sizes # <<>> THEN Average(sizes) ELSE 0,
     total_bytes |-> Sum(sizes)]

\* lines 188-241.  "if not packets_data: return {}": the empty dict is the
\* function with no key.
_calculate_statistics(ps) ==
    IF ps = <<>> THEN [k \in {} |-> 0]
    ELSE [total_packets |-> Len(ps),
          protocol_distribution |-> CountProtocols(ps, <<>>),
          top_source_ips |-> Top(CountAddresses(ps, "source_ip", <<>>)),
          top_destination_ips |-> Top(CountAddresses(ps, "destination_ip", <<>>)),
          top_source_ports |-> Top(CountPorts(ps, "source_port", <<>>)),
          top_destination_ports |-> Top(CountPorts(ps, "destination_port", <<>>)),
          packet_size_stats |-> SizeStats(PacketSizes(ps))]

-----------------------------------------------------------------------------
(* Inputs *)

\* all sequences over S of length at most n
SeqsUpTo(S, n) == UNION {[1..m -> S] : m \in 0..n}

\* the layers a frame handed to the classifier is built from
LayerChoices ==
    {Ether, ARP, Raw,
     IPLayer("192.168.1.100", "192.168.1.1"), IPLayer("10.0.0.1", "10.0.0.2"),
     IPv6Layer("fe80::1", "fe80::2"),
     TCPLayer(12345, 80, 2), TCPLayer(443, 12346, 18),
     UDPLayer(12347, 53),
     ICMPLayer(8, 0)}

\* the layer stacks handed to the classifier
ClassifyLayers == SeqsUpTo(LayerChoices, MaxLayers)

\* the frames of the capture files: TCP, UDP, no network layer, TCP to
\* port 0 (test_app.py:35), ICMP, and a frame without a capture time
TcpFrame ==
    Frame(Some(1), 80, <<Ether, IPLayer("192.168.1.100", "192.168.1.1"),
                         TCPLayer(12345, 80, 2)>>)
UdpFrame ==
    Frame(Some(2), 60, <<Ether, IPLayer("192.168.1.100", "8.8.8.8"),
                         UDPLayer(12347, 53)>>)
OtherFrame == Frame(Some(3), 40, <<Ether, ARP>>)
PortZeroFrame ==
    Frame(Some(2), 74, <<Ether, IPLayer("192.168.1.100", "192.168.1.1"),
                         TCPLayer(12349, 0, 2), Raw>>)
IcmpFrame ==
    Frame(Some(1), 98, <<Ether, IPLayer("192.168.1.1", "192.168.1.100"),
                         ICMPLayer(8, 0)>>)
BrokenFrame ==
    Frame(None, 50, <<Ether, IPLayer("192.168.1.100", "192.168.1.1"),
                      TCPLayer(12345, 80, 2)>>)

SampleFrames == {TcpFrame, UdpFrame, OtherFrame, PortZeroFrame, IcmpFrame}

\* the frames of a capture file that can be read
FileFrames == SeqsUpTo(SampleFrames \cup {BrokenFrame}, MaxFrames)

\* the filter dicts: each key left out or given one of its values
FilterKeys ==
    {"protocol", "ip_address", "port", "min_size", "max_size", "start_time", "end_time"}

FilterChoices ==
    [protocol : {None, Some("TCP")},
     ip_address : {None, Some("192.168.1.1")},
     port : {None, Some(0), Some(80)},
     min_size : {None, Some(0), Some(60), Some(100)},
     max_size : {None, Some(0), Some(60)},
     start_time : {None, Some(isoformat(fromtimestamp(2))), Some("not-a-date")},
     end_time : {None, Some(isoformat(fromtimestamp(2))), Some("not-a-date")}]

FilterDict(c) == [k \in {key \in FilterKeys : c[key] # None} |-> c[k][1]]

FilterSpecs == {FilterDict(c) : c \in FilterChoices}

\* the frames behind the lists the exporter reads back from storage
FilterFrames == SeqsUpTo(SampleFrames, MaxRecords)

\* frame k of a burst: one TCP frame per endpoint, forward (k is the source)
\* or reversed (k is the destination)
BurstFrame(k, reversed) ==
    LET host == "10.0.0." \o ToString(k)
    IN  IF reversed
        THEN Frame(Some(1), 60 + k, <<Ether, IPLayer("10.0.0.0", host),
                                      TCPLayer(80, 1000 + k, 18)>>)
        ELSE Frame(Some(1), 60 + k, <<Ether, IPLayer(host, "10.0.0.0"),
                                      TCPLayer(1000 + k, 80, 2)>>)

Burst(m, reversed) == [k \in 1..m |-> BurstFrame(k, reversed)]

\* the frames that may come before or after a burst: capture frames, and
\* the first and the last endpoint of the burst once more
ExtraFrames(reversed) ==
    {TcpFrame, UdpFrame, OtherFrame, PortZeroFrame,
     BurstFrame(1, reversed), BurstFrame(MaxDistinct, reversed)}

\* the frames behind an input of the aggregator: a burst of m distinct
\* endpoints with further frames in front of it or behind it
StatsFrames(m, reversed, front, extra) ==
    IF front THEN extra \o Burst(m, reversed) ELSE Burst(m, reversed) \o extra

-----------------------------------------------------------------------------
(* The four engines, each called once on an input *)

\* the state of an engine that is not called
ClassifyIdle == packet = None /\ packet_info = None
ExtractIdle == pcap = None /\ max_packets_per_file = 0 /\ parsed = None
FilterIdle == filters = None /\ filtered_packets = None /\ refiltered = None
StatsIdle == stats = None
DirectoryIdle == directory = None /\ all_packets = None
SaveIdle ==
    /\ store = <<>> /\ store_before = <<>>
    /\ batch_size = 0 /\ batch_start = 0 /\ save_result = None
ExportIdle ==
    /\ output_file = "" /\ files = <<>> /\ export_result = None
    /\ include_statistics = TRUE /\ unwritable = {}
PipelineIdle == pipeline_stage = "none" /\ pipeline_result = None
PermuteIdle == permuted = <<>> /\ stats_permuted = None
AppIdle == DirectoryIdle /\ SaveIdle /\ ExportIdle /\ PipelineIdle /\ PermuteIdle

InitClassify ==
    /\ pc = "classify"
    /\ \E t \in {None, Some(1)}, n \in {40, 64}, ls \in ClassifyLayers :
           packet = Frame(t, n, ls)
    /\ packet_info = None
    /\ pcap = None /\ max_packets_per_file = 0 /\ parsed = None
    /\ packets_data = <<>> /\ filters = None
    /\ filtered_packets = None /\ refiltered = None
    /\ stats = None
    /\ AppIdle

InitExtract ==
    /\ pc = "parse"
    /\ \/ pcap = None
       \/ \E fs \in FileFrames : pcap = Some(fs)
    /\ max_packets_per_file \in 0..MaxCap
    /\ parsed = None
    /\ packet = None /\ packet_info = None
    /\ packets_data = <<>> /\ filters = None
    /\ filtered_packets = None /\ refiltered = None
    /\ stats = None
    /\ AppIdle

InitFilter ==
    /\ pc = "filter"
    /\ \E fs \in FilterFrames : packets_data = StoredRecords(fs)
    /\ filters \in FilterSpecs
    /\ filtered_packets = None /\ refiltered = None
    /\ packet = None /\ packet_info = None
    /\ pcap = None /\ max_packets_per_file = 0 /\ parsed = None
    /\ stats = None
    /\ AppIdle

InitStats ==
    /\ pc = "stats"
    /\ \E m \in 0..MaxDistinct, reversed \in BOOLEAN, front \in BOOLEAN :
         \E extra \in SeqsUpTo(ExtraFrames(reversed), MaxExtra) :
           packets_data = StoredRecords(StatsFrames(m, reversed, front, extra))
    /\ stats = None
    /\ packet = None /\ packet_info = None
    /\ pcap = None /\ max_packets_per_file = 0 /\ parsed = None
    /\ filters = None /\ filtered_packets = None /\ refiltered = None
    /\ AppIdle

\* PCAPParser._extract_packet_info(packet, file_name)
ExtractPacketInfo ==
    /\ pc = "classify"
    /\ packet_info' = Some(_extract_packet_info(packet, FileName))
    /\ pc' = "classified"
    /\ UNCHANGED <<packet, extractVars, packets_data, filterVars, statsVars, appVars>>

\* PCAPParser.parse_pcap_file(file_path)
ParsePcapFile ==
    /\ pc = "parse"
    /\ parsed' = Some(parse_pcap_file(pcap, FileName, max_packets_per_file))
    /\ pc' = "parsed"
    /\ UNCHANGED <<classifyVars, pcap, max_packets_per_file, packets_data,
                   filterVars, statsVars, appVars>>

\* JSONExporter._apply_filters(packets_data, filters)
ApplyFilters ==
    /\ pc = "filter"
    /\ filtered_packets' = _apply_filters(packets_data, filters)
    /\ packets_data' = CallerList(packets_data, filters)
    /\ pc' = "filtered"
    /\ UNCHANGED <<classifyVars, extractVars, filters, refiltered, statsVars, appVars>>

\* JSONExporter._apply_filters(result, filters): the same filter dict applied
\* to the list the first call returned
ApplyFiltersAgain ==
    /\ pc = "filtered"
    /\ filtered_packets.raised = None
    /\ refiltered' = _apply_filters(filtered_packets.value[1], filters)
    /\ pc' = "refiltered"
    /\ UNCHANGED <<classifyVars, extractVars, packets_data, filters,
                   filtered_packets, statsVars, appVars>>

\* JSONExporter._calculate_statistics(packets_data)
CalculateStatistics ==
    /\ pc = "stats"
    /\ stats' = Some(_calculate_statistics(packets_data))
    /\ pc' = "stats_done"
    /\ UNCHANGED <<classifyVars, extractVars, packets_data, filterVars, appVars>>

NextClassify == ExtractPacketInfo
NextExtract == ParsePcapFile
NextFilter == ApplyFilters \/ ApplyFiltersAgain
NextStats == CalculateStatistics

SpecClassify == InitClassify /\ [][NextClassify]_vars
SpecExtract == InitExtract /\ [][NextExtract]_vars
SpecFilter == InitFilter /\ [][NextFilter]_vars
SpecStats == InitStats /\ [][NextStats]_vars

-----------------------------------------------------------------------------
(* pcap_parser.py: PCAPParser.parse_directory *)

MaxFiles == 3

\* an entry of os.listdir(directory_path): the name in two parts, and the
\* frames rdpcap reads from it (None when rdpcap raises)
Entry(stem, ext, file) == [stem |-> stem, ext |-> ext, file |-> file]
EntryName(entry) == entry.stem \o entry.ext

\* str.lower() on the extensions the model uses
Lower(ext) ==
    CASE ext = ".PCAP" -> ".pcap"
      [] ext = ".PCAPNG" -> ".pcapng"
      [] OTHER -> ext

\* line 177: f.lower().endswith(('.pcap', '.pcapng'))
IsCaptureFile(entry) == Lower(entry.ext) \in {".pcap", ".pcapng"}
PcapFiles(listing) == SelectSeq(listing, IsCaptureFile)

\* a plausible slip: "all_packets = ..." in place of all_packets.extend(...)
RECURSIVE ParseEachAssigning(_, _)
ParseEachAssigning(pcap_files, cap) ==
    IF pcap_files = <<>> THEN <<>>
    ELSE IF Len(pcap_files) = 1
    THEN parse_pcap_file(pcap_files[1].file, EntryName(pcap_files[1]), cap)
    ELSE ParseEachAssigning(Tail(pcap_files), cap)

\* lines 185-188: all_packets.extend(self.parse_pcap_file(file_path))
RECURSIVE ParseEach(_, _)
ParseEach(pcap_files, cap) ==
    IF pcap_files = <<>> THEN <<>>
    ELSE parse_pcap_file(Head(pcap_files).file, EntryName(Head(pcap_files)), cap)
             \o ParseEach(Tail(pcap_files), cap)

\* lines 161-191.  dir is None when os.path.exists is false (lines 173-175);
\* a listing without capture files returns the empty list too (179-181).
parse_directory(dir, cap) ==
    IF dir = None THEN <<>>
    ELSE IF PcapFiles(dir[1]) = <<>> THEN <<>>
    ELSE ParseEach(PcapFiles(dir[1]), cap)

\* the frames of the capture files of a directory: no frame, frames that
\* classify, frames that do not, and files longer than a cap
DirectoryFiles ==
    {<<>>, <<TcpFrame>>, <<BrokenFrame>>, <<TcpFrame, UdpFrame>>,
     <<BrokenFrame, UdpFrame>>, <<TcpFrame, BrokenFrame, UdpFrame>>}

\* the entries the i-th place of a listing can hold: a capture file with
\* frames, a capture file rdpcap cannot read, a file that is no capture
EntriesAt(i) ==
    LET stem == "capture" \o ToString(i)
        ext == IF i % 2 = 1 THEN ".pcap" ELSE ".PCAPNG"
    IN  {Entry(stem, ext, Some(fs)) : fs \in DirectoryFiles}
            \cup {Entry(stem, ext, None), Entry("notes" \o ToString(i), ".txt", None)}

RECURSIVE Listings(_)
Listings(n) ==
    IF n = 0 THEN {<<>>}
    ELSE {Append(listing, entry) : listing \in Listings(n - 1), entry \in EntriesAt(n)}

InitDirectory ==
    /\ pc = "parse_directory"
    /\ \/ directory = None
       \/ \E n \in 0..MaxFiles : \E listing \in Listings(n) : directory = Some(listing)
    /\ max_packets_per_file \in 0..MaxCap
    /\ all_packets = None
    /\ pcap = None /\ parsed = None
    /\ packets_data = <<>>
    /\ ClassifyIdle /\ FilterIdle /\ StatsIdle
    /\ SaveIdle /\ ExportIdle /\ PipelineIdle /\ PermuteIdle

\* PCAPParser.parse_directory(directory_path)
ParseDirectory ==
    /\ pc = "parse_directory"
    /\ all_packets' = Some(parse_directory(directory, max_packets_per_file))
    /\ pc' = "directory_parsed"
    /\ UNCHANGED <<classifyVars, extractVars, packets_data, filterVars, statsVars,
                   directory, saveVars, exportVars, pipelineVars, permuteVars>>

NextDirectory == ParseDirectory
SpecDirectory == InitDirectory /\ [][NextDirectory]_vars

-----------------------------------------------------------------------------
(* traffic_parser_app.py: TrafficParserApp.save_to_database *)

MaxSave == 4
MaxBatch == 2

\* config.py: Config.BATCH_SIZE
BATCH_SIZE == 1000

\* line 78: batch_size or self.config.BATCH_SIZE
EffectiveBatchSize(size) == IF size # 0 THEN size ELSE BATCH_SIZE

\* line 87: packets_data[i:i + batch_size]
Batch(data, i, size) == SubSeq(data, i + 1, Min(i + size, Len(data)))

\* database.py lines 47-51 and line 89: the rows of a batch, with the ids
\* autoincrement gives them, once the session has committed
InsertRows(rows, batch) ==
    rows \o [k \in 1..Len(batch) |-> TrafficPacket(batch[k], Len(rows) + k)]

\* a plausible slip: a session that commits row by row, so that the rows
\* flushed before the fault stay
RollbackAfterFlush(rows, batch) == InsertRows(rows, SubSeq(batch, 1, 1))

\* line 96: session.rollback() drops the batch that was not committed
Rollback(rows, batch) == rows

\* the records handed to save_to_database
SaveFrames == {TcpFrame, UdpFrame, OtherFrame}

\* the rows an earlier run left in the table
EarlierRows == InsertRows(<<>>, ExtractEach(<<IcmpFrame>>, "earlier.pcap"))

InitSave ==
    /\ pc = "save"
    /\ \E fs \in SeqsUpTo(SaveFrames, MaxSave) : packets_data = ExtractEach(fs, FileName)
    /\ batch_size \in 0..MaxBatch
    /\ store \in {<<>>, EarlierRows}
    /\ store_before = store
    /\ batch_start = 0 /\ save_result = None
    /\ ClassifyIdle /\ ExtractIdle /\ FilterIdle /\ StatsIdle
    /\ DirectoryIdle /\ ExportIdle /\ PipelineIdle /\ PermuteIdle

\* lines 74-79: nothing to save, or the loop is entered
SaveToDatabase ==
    /\ pc = "save"
    /\ IF packets_data = <<>>
       THEN /\ save_result' = Some(TRUE)
            /\ pc' = "saved"
            /\ UNCHANGED <<batch_size, batch_start>>
       ELSE /\ batch_size' = EffectiveBatchSize(batch_size)
            /\ batch_start' = 0
            /\ pc' = "save_loop"
            /\ UNCHANGED save_result
    /\ UNCHANGED <<classifyVars, extractVars, packets_data, filterVars, statsVars,
                   directoryVars, store, store_before, exportVars, pipelineVars,
                   permuteVars>>

\* lines 85-89: one batch added and committed
SaveBatch ==
    /\ pc = "save_loop"
    /\ batch_start < Len(packets_data)
    /\ store' = InsertRows(store, Batch(packets_data, batch_start, batch_size))
    /\ batch_start' = batch_start + batch_size
    /\ UNCHANGED <<pc, classifyVars, extractVars, packets_data, filterVars, statsVars,
                   directoryVars, store_before, batch_size, save_result, exportVars,
                   pipelineVars, permuteVars>>

\* lines 88-89 raise, lines 94-97: the batch is rolled back, False is returned
SaveBatchFault ==
    /\ pc = "save_loop"
    /\ batch_start < Len(packets_data)
    /\ store' = Rollback(store, Batch(packets_data, batch_start, batch_size))
    /\ save_result' = Some(FALSE)
    /\ pc' = "saved"
    /\ UNCHANGED <<classifyVars, extractVars, packets_data, filterVars, statsVars,
                   directoryVars, store_before, batch_size, batch_start, exportVars,
                   pipelineVars, permuteVars>>

\* lines 91-92: the loop is over
SaveReturn ==
    /\ pc = "save_loop"
    /\ batch_start >= Len(packets_data)
    /\ save_result' = Some(TRUE)
    /\ pc' = "saved"
    /\ UNCHANGED <<classifyVars, extractVars, packets_data, filterVars, statsVars,
                   directoryVars, store, store_before, batch_size, batch_start,
                   exportVars, pipelineVars, permuteVars>>

NextSave == SaveToDatabase \/ SaveBatch \/ SaveBatchFault \/ SaveReturn
SpecSave == InitSave /\ [][NextSave]_vars

-----------------------------------------------------------------------------
(* json_exporter.py: the export files *)

\* open(path, 'w') and json.dump: the file at path holds content afterwards
WriteFile(disk, path, content) ==
    [q \in DOMAIN disk \cup {path} |-> IF q = path THEN content ELSE disk[q]]

\* what a call of the exporter leaves behind: the returned value, the disk
Exported(result, disk) == [result |-> result, files |-> disk]

\* lines 15-51.  writable is false when os.makedirs or open raises; the
\* reading of the clock (export_timestamp) is left out of the content.
export_packets(disk, path, packets, writable) ==
    LET export_data ==
            [metadata |-> [total_packets |-> Len(packets), export_version |-> "1.0"],
             packets |-> packets]
    IN  IF writable
        THEN Exported(TRUE, WriteFile(disk, path, export_data))
        ELSE Exported(FALSE, disk)

\* lines 53-92.  "filters or {}": None and the empty dict are the same value
\* here; a fault of _apply_filters is caught at line 90.
export_filtered_packets(disk, path, packets, f, writable) ==
    LET filtered == _apply_filters(packets, f)
    IN  IF filtered.raised # None THEN Exported(FALSE, disk)
        ELSE LET export_data ==
                     [metadata |-> [total_packets |-> Len(filtered.value[1]),
                                    filters_applied |-> f,
                                    export_version |-> "1.0"],
                      packets |-> filtered.value[1]]
             IN  IF writable
                 THEN Exported(TRUE, WriteFile(disk, path, export_data))
                 ELSE Exported(FALSE, disk)

\* the paths of the export file
OutputFiles == {"output/traffic_data.json", "output/traffic_data"}

\* line 170: self.output_file.replace('.json', '_statistics.json')
StatisticsFile(path) ==
    IF path = "output/traffic_data.json"
    THEN "output/traffic_data_statistics.json"
    ELSE path

\* lines 147-186
export_statistics(disk, path, packets, writable) ==
    LET export_data ==
            [metadata |-> [total_packets |-> Len(packets), export_version |-> "1.0"],
             statistics |-> _calculate_statistics(packets)]
    IN  IF writable
        THEN Exported(TRUE, WriteFile(disk, StatisticsFile(path), export_data))
        ELSE Exported(FALSE, disk)

\* the filter dicts handed to the export: the time bounds left out, given
\* as an ISO date, as text that is no date, or as the empty text
ExportFilterChoices ==
    [protocol : {None, Some("TCP")},
     ip_address : {None},
     port : {None},
     min_size : {None, Some(100)},
     max_size : {None},
     start_time : {None, Some(isoformat(fromtimestamp(2))), Some("not-a-date"), Some("")},
     end_time : {None, Some(isoformat(fromtimestamp(2))), Some("not-a-date"), Some("")}]

ExportFilterSpecs == {FilterDict(c) : c \in ExportFilterChoices}

\* the frames behind the records handed to the export
ExportFrames == {<<>>, <<TcpFrame>>, <<TcpFrame, UdpFrame, OtherFrame>>}

\* the export file an earlier run left on disk
OldExport ==
    [metadata |-> [total_packets |-> 0, export_version |-> "0.9"], packets |-> <<>>]

InitExport ==
    /\ pc = "export_filtered"
    /\ \E fs \in ExportFrames : packets_data = StoredRecords(fs)
    /\ filters \in ExportFilterSpecs
    /\ output_file \in OutputFiles
    /\ files \in {<<>>, WriteFile(<<>>, output_file, OldExport)}
    /\ export_result = None
    /\ include_statistics = TRUE /\ unwritable = {}
    /\ filtered_packets = None /\ refiltered = None
    /\ ClassifyIdle /\ ExtractIdle /\ StatsIdle
    /\ DirectoryIdle /\ SaveIdle /\ PipelineIdle /\ PermuteIdle

\* JSONExporter.export_filtered_packets(packets_data, filters)
ExportFilteredPackets ==
    /\ pc = "export_filtered"
    /\ \E writable \in BOOLEAN :
         LET exported == export_filtered_packets(files, output_file, packets_data,
                                                 filters, writable)
         IN  /\ export_result' = Some(exported.result)
             /\ files' = exported.files
    /\ pc' = "exported"
    /\ UNCHANGED <<classifyVars, extractVars, packets_data, filterVars, statsVars,
                   directoryVars, saveVars, output_file, include_statistics,
                   unwritable, pipelineVars, permuteVars>>

NextExport == ExportFilteredPackets
SpecExport == InitExport /\ [][NextExport]_vars

-----------------------------------------------------------------------------
(* traffic_parser_app.py: TrafficParserApp.run_full_pipeline *)

\* lines 37-60: parse_pcap_files; the path is tested once more at line 50
parse_pcap_files(dir, cap) ==
    IF dir = None THEN <<>> ELSE parse_directory(dir, cap)

\* a plausible slip: the statistics taken of the packets that were exported,
\* and their outcome returned
export_to_json_of_exported(rows, disk, path, f, with_statistics, writable, stats_writable) ==
    IF rows = <<>> THEN Exported(FALSE, disk)
    ELSE LET packets == export_to_dict(rows)
             exported == IF DOMAIN f # {}
                         THEN export_filtered_packets(disk, path, packets, f, writable)
                         ELSE export_packets(disk, path, packets, writable)
         IN  IF with_statistics /\ exported.result
             THEN export_statistics(exported.files, path,
                                    _apply_filters(packets, f).value[1], stats_writable)
             ELSE exported

\* lines 101-144: export_to_json.  rows is what get_all_packets returns; the
\* statistics are those of all rows, and their outcome is not returned.
export_to_json(rows, disk, path, f, with_statistics, writable, stats_writable) ==
    IF rows = <<>> THEN Exported(FALSE, disk)
    ELSE LET packets == export_to_dict(rows)
             exported == IF DOMAIN f # {}
                         THEN export_filtered_packets(disk, path, packets, f, writable)
                         ELSE export_packets(disk, path, packets, writable)
         IN  IF with_statistics /\ exported.result
             THEN Exported(TRUE, export_statistics(exported.files, path, packets,
                                                   stats_writable).files)
             ELSE exported

\* a plausible slip: the value save_to_database returns not tested
SaveFailedUntested(result) == FALSE

\* line 172: "if not self.save_to_database(packets_data)"
SaveFailed(result) == result = Some(FALSE)

\* a plausible slip: the test of line 167 left out
NoPacketsUntested(packets) == FALSE

\* line 167: "if not packets_data"
NoPackets(packets) == packets = <<>>

\* the directories the pipeline is run on: missing, empty, without a capture
\* file, with an unreadable one, with frames that all fail, with frames
PipelineDirectories ==
    {None,
     Some(<<>>),
     Some(<<Entry("notes", ".txt", None)>>),
     Some(<<Entry("capture1", ".pcap", None)>>),
     Some(<<Entry("capture1", ".pcap", Some(<<BrokenFrame, BrokenFrame>>))>>),
     Some(<<Entry("capture1", ".pcap", Some(<<TcpFrame, UdpFrame, OtherFrame>>))>>),
     Some(<<Entry("capture1", ".pcap", Some(<<TcpFrame>>)),
            Entry("capture2", ".PCAPNG", None),
            Entry("capture3", ".pcapng", Some(<<UdpFrame, BrokenFrame>>))>>)}

\* the export_filters argument: None, a protocol, a bound no record meets,
\* a time bound that is no date
PipelineFilters ==
    {<<>>, [protocol |-> "TCP"], [min_size |-> 100], [start_time |-> "not-a-date"]}

InitPipeline ==
    /\ pc = "pipeline"
    /\ pipeline_stage = "initialize" /\ pipeline_result = None
    /\ directory \in PipelineDirectories
    /\ max_packets_per_file \in 0..MaxCap
    /\ all_packets = None /\ packets_data = <<>>
    /\ store \in {<<>>, EarlierRows} /\ store_before = store
    /\ batch_size = 0 /\ batch_start = 0 /\ save_result = None
    /\ filters \in PipelineFilters
    /\ output_file \in OutputFiles
    /\ files \in {<<>>, WriteFile(<<>>, output_file, OldExport)}
    /\ export_result = None
    /\ include_statistics = TRUE /\ unwritable = {}
    /\ pcap = None /\ parsed = None
    /\ filtered_packets = None /\ refiltered = None
    /\ ClassifyIdle /\ StatsIdle /\ PermuteIdle

\* lines 158-162, 184-186: initialize_database; a fault ends the pipeline
InitializeDatabase ==
    /\ pipeline_stage = "initialize"
    /\ \/ /\ pipeline_stage' = "parse"
          /\ UNCHANGED pipeline_result
       \/ /\ pipeline_stage' = "returned"
          /\ pipeline_result' = Some(FALSE)
    /\ UNCHANGED <<pc, classifyVars, extractVars, packets_data, filterVars, statsVars,
                   directoryVars, saveVars, exportVars, permuteVars>>

\* lines 164-169: the parse stage and the test of its result
ParsePcapFiles ==
    /\ pipeline_stage = "parse"
    /\ LET parsed_data == parse_pcap_files(directory, max_packets_per_file)
       IN  /\ all_packets' = Some(parsed_data)
           /\ packets_data' = parsed_data
           /\ IF NoPackets(parsed_data)
              THEN /\ pipeline_stage' = "returned"
                   /\ pipeline_result' = Some(FALSE)
                   /\ UNCHANGED pc
              ELSE /\ pipeline_stage' = "save"
                   /\ pc' = "save"
                   /\ UNCHANGED pipeline_result
    /\ UNCHANGED <<classifyVars, extractVars, filterVars, statsVars, directory,
                   saveVars, exportVars, permuteVars>>

\* lines 171-174: save_to_database has returned
SavedToDatabase ==
    /\ pipeline_stage = "save"
    /\ pc = "saved"
    /\ IF SaveFailed(save_result)
       THEN /\ pipeline_stage' = "returned"
            /\ pipeline_result' = Some(FALSE)
       ELSE /\ pipeline_stage' = "export"
            /\ UNCHANGED pipeline_result
    /\ UNCHANGED <<pc, classifyVars, extractVars, packets_data, filterVars, statsVars,
                   directoryVars, saveVars, exportVars, permuteVars>>

\* lines 176-182: export_to_json(filters=export_filters) and the return
ExportToJson ==
    /\ pipeline_stage = "export"
    /\ \E writable \in BOOLEAN, stats_writable \in BOOLEAN :
         LET exported == export_to_json(store, files, output_file, filters, TRUE,
                                        writable, stats_writable)
         IN  /\ files' = exported.files
             /\ export_result' = Some(exported.result)
             /\ pipeline_result' = Some(exported.result)
    /\ pipeline_stage' = "returned"
    /\ UNCHANGED <<pc, classifyVars, extractVars, packets_data, filterVars, statsVars,
                   directoryVars, saveVars, output_file, include_statistics,
                   unwritable, permuteVars>>

NextPipeline ==
    \/ InitializeDatabase \/ ParsePcapFiles
    \/ SaveToDatabase \/ SaveBatch \/ SaveBatchFault \/ SaveReturn
    \/ SavedToDatabase \/ ExportToJson
SpecPipeline == InitPipeline /\ [][NextPipeline]_vars

-----------------------------------------------------------------------------
(* json_exporter.py: JSONExporter._calculate_statistics on a reordered list *)

MaxPermuted == 3

\* the reorderings of a list of n records, each a bijection on the
\* positions: all of them for a short list; for a longer one the reversal,
\* two rotations and two exchanges
Orders(n) ==
    IF n <= MaxPermuted
    THEN {f \in [1..n -> 1..n] : \A i, j \in 1..n : i # j => f[i] # f[j]}
    ELSE {[i \in 1..n |-> n + 1 - i],
          [i \in 1..n |-> (i % n) + 1],
          [i \in 1..n |-> ((i + (n \div 2) - 1) % n) + 1],
          [i \in 1..n |-> IF i = 1 THEN 2 ELSE IF i = 2 THEN 1 ELSE i],
          [i \in 1..n |-> IF i = 1 THEN n ELSE IF i = n THEN 1 ELSE i]}

Reordered(ps, f) == [i \in 1..Len(ps) |-> ps[f[i]]]

InitPermute ==
    /\ pc = "stats_twice"
    /\ \E m \in {0, 1, MaxDistinct}, reversed \in BOOLEAN :
         \E extra \in SeqsUpTo(ExtraFrames(reversed), MaxExtra) :
           /\ packets_data = StoredRecords(StatsFrames(m, reversed, FALSE, extra))
           /\ \E f \in Orders(m + Len(extra)) : permuted = Reordered(packets_data, f)
    /\ stats = None /\ stats_permuted = None
    /\ ClassifyIdle /\ ExtractIdle /\ FilterIdle
    /\ DirectoryIdle /\ SaveIdle /\ ExportIdle /\ PipelineIdle

\* JSONExporter._calculate_statistics called on the list and on the
\* reordered list
CalculateStatisticsTwice ==
    /\ pc = "stats_twice"
    /\ stats' = Some(_calculate_statistics(packets_data))
    /\ stats_permuted' = Some(_calculate_statistics(permuted))
    /\ pc' = "stats_twice_done"
    /\ UNCHANGED <<classifyVars, extractVars, packets_data, filterVars,
                   directoryVars, saveVars, exportVars, pipelineVars, permuted>>

NextPermute == CalculateStatisticsTwice
SpecPermute == InitPermute /\ [][NextPermute]_vars

-----------------------------------------------------------------------------
(* The three engines in a row: classify and store, filter, summarize *)

\* an IPv4/TCP frame of 80 bytes, an IPv4/UDP frame of 60 bytes and a frame
\* of 40 bytes without a network layer (test_app.py:19-36)
ScenarioTcp(src, dport, t) ==
    Frame(Some(t), 80, <<Ether, IPLayer(src, "192.168.1.1"), TCPLayer(12345, dport, 2)>>)
ScenarioUdp(dport, t) ==
    Frame(Some(t), 60, <<Ether, IPLayer("192.168.1.100", "8.8.8.8"),
                         UDPLayer(12347, dport)>>)
ScenarioOther(ls) == Frame(Some(3), 40, ls)

\* the layer stacks without a network layer
ScenarioOtherLayers ==
    {<<Ether, ARP>>, <<Ether>>, <<Ether, Raw>>, <<Ether, TCPLayer(12345, 80, 2)>>}

InitScenario ==
    /\ pc = "scenario"
    /\ \E src \in {"192.168.1.100", "10.0.0.1"}, tcp_dport \in {80, 443, 0},
          udp_dport \in {53, 123}, t1 \in 1..3, t2 \in 1..3, ls \in ScenarioOtherLayers :
           pcap = Some(<<ScenarioTcp(src, tcp_dport, t1), ScenarioUdp(udp_dport, t2),
                         ScenarioOther(ls)>>)
    /\ max_packets_per_file = 0 /\ parsed = None
    /\ packets_data = <<>>
    /\ filters = [protocol |-> "TCP"]
    /\ filtered_packets = None /\ refiltered = None
    /\ stats = None
    /\ ClassifyIdle /\ AppIdle

\* the frames classified (pcap_parser.py:41-48), stored and read back
\* (traffic_parser_app.py:119-126)
ClassifyAndStore ==
    /\ pc = "scenario"
    /\ packets_data' = StoredRecords(pcap[1])
    /\ pc' = "scenario_stored"
    /\ UNCHANGED <<classifyVars, extractVars, filterVars, statsVars, appVars>>

\* JSONExporter._apply_filters(packets_data, filters) on the records read back
FilterStored ==
    /\ pc = "scenario_stored"
    /\ filtered_packets' = _apply_filters(packets_data, filters)
    /\ packets_data' = CallerList(packets_data, filters)
    /\ pc' = "scenario_filtered"
    /\ UNCHANGED <<classifyVars, extractVars, filters, refiltered, statsVars, appVars>>

\* JSONExporter._calculate_statistics(packets_data) on the records read back
SummarizeStored ==
    /\ pc = "scenario_filtered"
    /\ stats' = Some(_calculate_statistics(packets_data))
    /\ pc' = "scenario_done"
    /\ UNCHANGED <<classifyVars, extractVars, packets_data, filterVars, appVars>>

NextScenario == ClassifyAndStore \/ FilterStored \/ SummarizeStored
SpecScenario == InitScenario /\ [][NextScenario]_vars

-----------------------------------------------------------------------------
(* traffic_parser_app.py: TrafficParserApp.export_to_json called on a table *)

InitExportToJson ==
    /\ pc = "export_to_json"
    /\ \E fs \in ExportFrames : store = InsertRows(<<>>, ExtractEach(fs, FileName))
    /\ store_before = store
    /\ batch_size = 0 /\ batch_start = 0 /\ save_result = None
    /\ filters \in PipelineFilters
    /\ include_statistics \in BOOLEAN
    /\ output_file \in OutputFiles
    /\ files \in {<<>>, WriteFile(<<>>, output_file, OldExport)}
    /\ unwritable \in SUBSET {output_file, StatisticsFile(output_file)}
    /\ export_result = None
    /\ packets_data = <<>>
    /\ filtered_packets = None /\ refiltered = None
    /\ ClassifyIdle /\ ExtractIdle /\ StatsIdle
    /\ DirectoryIdle /\ PipelineIdle /\ PermuteIdle

\* TrafficParserApp.export_to_json(include_statistics, filters)
CallExportToJson ==
    /\ pc = "export_to_json"
    /\ LET exported == export_to_json(store, files, output_file, filters,
                                      include_statistics,
                                      output_file \notin unwritable,
                                      StatisticsFile(output_file) \notin unwritable)
       IN  /\ files' = exported.files
           /\ export_result' = Some(exported.result)
    /\ pc' = "json_exported"
    /\ UNCHANGED <<classifyVars, extractVars, packets_data, filterVars, statsVars,
                   directoryVars, saveVars, output_file, include_statistics,
                   unwritable, pipelineVars, permuteVars>>

NextExportToJson == CallExportToJson
SpecExportToJson == InitExportToJson /\ [][NextExportToJson]_vars

Init ==
    InitClassify \/ InitExtract \/ InitFilter \/ InitStats \/ InitDirectory \/ InitSave
        \/ InitExport \/ InitPipeline \/ InitPermute \/ InitScenario
        \/ InitExportToJson
Next ==
    NextClassify \/ NextExtract \/ NextFilter \/ NextStats \/ NextDirectory \/ NextSave
        \/ NextExport \/ NextPipeline \/ NextPermute \/ NextScenario
        \/ NextExportToJson
Spec == Init /\ [][Next]_vars

-----------------------------------------------------------------------------
(* Batch extractor: the per-file cap *)

\* the frames of the file that was read, and the records returned for it
FramesRead == pcap[1]
RecordsParsed == parsed[1]

\* C1 as stated: for every cap k, 0 included, and every file of n > k frames,
\* parse_pcap_file classifies exactly the first k frames in their order: it
\* returns at most k records, the records of frames 1..k.
C1_BatchCapAnyCap ==
    (pc = "parsed" /\ pcap # None /\ Len(FramesRead) > max_packets_per_file)
        => /\ Len(RecordsParsed) <= max_packets_per_file
           /\ RecordsParsed =
                  ExtractEach(SubSeq(FramesRead, 1, max_packets_per_file), FileName)

\* C1, amended: for every cap k >= 1 and every file of n > k frames,
\* parse_pcap_file classifies exactly the first k frames in their order and
\* returns at most k records; a cap of 0 switches the cap off and every
\* frame of the file is classified.
C1_BatchCap ==
    (pc = "parsed" /\ pcap # None)
        => /\ (max_packets_per_file >= 1 /\ Len(FramesRead) > max_packets_per_file)
                => /\ Len(RecordsParsed) <= max_packets_per_file
                   /\ RecordsParsed =
                          ExtractEach(SubSeq(FramesRead, 1, max_packets_per_file),
                                      FileName)
           /\ max_packets_per_file = 0
                => RecordsParsed = ExtractEach(FramesRead, FileName)

\* a file longer than the cap whose first k frames and whose frame k + 1 all
\* classify, read with cap k >= 1: k records came back
C1_Witness ==
    /\ pc = "parsed" /\ pcap # None
    /\ max_packets_per_file >= 1
    /\ Len(FramesRead) > max_packets_per_file
    /\ \A i \in 1..(max_packets_per_file + 1) : FramesRead[i].time # None
    /\ \A i, j \in 1..Len(FramesRead) : i # j => FramesRead[i] # FramesRead[j]
    /\ Len(RecordsParsed) = max_packets_per_file

-----------------------------------------------------------------------------
(* Filter engine: what the filter spec asks for, field by field.  A field   *)
(* is present when the filter dict carries its key.                         *)

FilterReturned == filtered_packets.raised = None
FilterResult == filtered_packets.value[1]

InSeq(x, xs) == \E i \in 1..Len(xs) : xs[i] = x

HoldsProtocol(p, f) ==
    "protocol" \in DOMAIN f => p["protocol"] = Some(f["protocol"])
HoldsAddress(p, f) ==
    "ip_address" \in DOMAIN f
        => \/ p["source_ip"] = Some(f["ip_address"])
           \/ p["destination_ip"] = Some(f["ip_address"])
HoldsPort(p, f) ==
    "port" \in DOMAIN f
        => \/ p["source_port"] = Some(f["port"])
           \/ p["destination_port"] = Some(f["port"])
HoldsMinSize(p, f) == "min_size" \in DOMAIN f => p["packet_size"] >= f["min_size"]
HoldsMaxSize(p, f) == "max_size" \in DOMAIN f => p["packet_size"] <= f["max_size"]

\* the second of the record's timestamp and of a time bound of the spec
SecondOf(text) == CHOOSE t \in 0..9 : isoformat(fromtimestamp(t)) = text
IsIsoDate(text) == \E t \in 0..9 : isoformat(fromtimestamp(t)) = text

HoldsStartTime(p, f) ==
    "start_time" \in DOMAIN f => SecondOf(p["timestamp"]) >= SecondOf(f["start_time"])
HoldsEndTime(p, f) ==
    "end_time" \in DOMAIN f => SecondOf(p["timestamp"]) <= SecondOf(f["end_time"])

\* the time bounds the spec carries are ISO dates
TimeBoundsParse(f) ==
    /\ "start_time" \in DOMAIN f => IsIsoDate(f["start_time"])
    /\ "end_time" \in DOMAIN f => IsIsoDate(f["end_time"])

\* C2: when the spec carries min_size and/or max_size (0 included), every
\* record returned has packet_size >= min_size and <= max_size, and every
\* input record within the bounds that passes the other present fields is
\* returned.
C2_SizeBounds ==
    (pc = "filtered" /\ TimeBoundsParse(filters)
        /\ DOMAIN filters \cap {"min_size", "max_size"} # {})
        => /\ FilterReturned
           /\ \A i \in 1..Len(FilterResult) :
                  /\ HoldsMinSize(FilterResult[i], filters)
                  /\ HoldsMaxSize(FilterResult[i], filters)
           /\ \A i \in 1..Len(packets_data) :
                  LET p == packets_data[i]
                  IN  (/\ HoldsMinSize(p, filters) /\ HoldsMaxSize(p, filters)
                       /\ HoldsProtocol(p, filters) /\ HoldsAddress(p, filters)
                       /\ HoldsPort(p, filters)
                       /\ HoldsStartTime(p, filters) /\ HoldsEndTime(p, filters))
                          => InSeq(p, FilterResult)

\* C3: when the spec carries a port v (0 included), a record is returned
\* only if its source port or its destination port is v; a record without
\* ports is never returned.
C3_PortFilter ==
    (pc = "filtered" /\ FilterReturned /\ "port" \in DOMAIN filters)
        => \A i \in 1..Len(FilterResult) :
               /\ FilterResult[i]["source_port"] # None
               /\ FilterResult[i]["destination_port"] # None
               /\ \/ FilterResult[i]["source_port"] = Some(filters["port"])
                  \/ FilterResult[i]["destination_port"] = Some(filters["port"])

-----------------------------------------------------------------------------
(* Filter engine: conjunction, idempotence, order *)

\* C4: for a spec that carries any subset of protocol, ip_address,
\* start_time and end_time (the time bounds being ISO dates), _apply_filters
\* returns exactly the records for which every present predicate holds, in
\* their order: the filters applied one after another are one filter by the
\* conjunction, and a missing field is no constraint.
C4_Conjunctive ==
    (/\ pc = "filtered"
     /\ DOMAIN filters \subseteq {"protocol", "ip_address", "start_time", "end_time"}
     /\ TimeBoundsParse(filters))
        => /\ FilterReturned
           /\ FilterResult =
                  SelectSeq(packets_data,
                            LAMBDA p : /\ HoldsProtocol(p, filters)
                                       /\ HoldsAddress(p, filters)
                                       /\ HoldsStartTime(p, filters)
                                       /\ HoldsEndTime(p, filters))

\* all four fields present, a record that passes them all next to one that
\* passes the address test on one end only and fails another field
C4_Witness ==
    /\ pc = "filtered"
    /\ DOMAIN filters = {"protocol", "ip_address", "start_time", "end_time"}
    /\ TimeBoundsParse(filters)
    /\ FilterReturned
    /\ Len(FilterResult) = 1
    /\ Len(packets_data) = 2
    /\ FilterResult[1]["source_ip"] # Some(filters["ip_address"])

\* C5: the filter applied to its own result with the same well-formed spec
\* returns that result again.
C5_Idempotent ==
    pc = "refiltered" => refiltered = filtered_packets

\* a spec that removed a record and kept one, applied twice
C5_Witness ==
    /\ pc = "refiltered"
    /\ DOMAIN filters # {}
    /\ refiltered.raised = None
    /\ Len(refiltered.value[1]) >= 1
    /\ Len(refiltered.value[1]) < Len(packets_data)

\* xs is ys with some elements left out
RECURSIVE IsSubsequence(_, _)
IsSubsequence(xs, ys) ==
    IF xs = <<>> THEN TRUE
    ELSE IF ys = <<>> THEN FALSE
    ELSE IF Head(xs) = Head(ys) THEN IsSubsequence(Tail(xs), Tail(ys))
    ELSE IsSubsequence(xs, Tail(ys))

\* C6: whenever _apply_filters returns, its result is a subsequence of the
\* input (input records only, none more often than in the input, in the same
\* relative order, no longer than the input), the input list is as it was
\* before the call, and an empty spec returns a list equal to the input.
C6_Subsequence ==
    [][(pc = "filter" /\ filtered_packets'.raised = None)
          => /\ IsSubsequence(filtered_packets'.value[1], packets_data)
             /\ Len(filtered_packets'.value[1]) <= Len(packets_data)
             /\ packets_data' = packets_data
             /\ DOMAIN filters = {} => filtered_packets'.value[1] = packets_data]_vars

\* a call that kept the second of two records and dropped the first
C6_Witness ==
    /\ pc = "filtered"
    /\ FilterReturned
    /\ Len(packets_data) = 2
    /\ FilterResult = <<packets_data[2]>>

-----------------------------------------------------------------------------
(* Aggregator *)

Report == stats[1]

\* C7: on the empty list _calculate_statistics returns a report whose
\* total_packets is 0, whose protocol and top-N mappings are empty and whose
\* size statistics (min, max, average, total) are all 0.
C7_EmptyReport ==
    (pc = "stats_done" /\ packets_data = <<>>)
        => /\ "total_packets" \in DOMAIN Report
           /\ Report["total_packets"] = 0
           /\ \A key \in {"protocol_distribution", "top_source_ips",
                          "top_destination_ips", "top_source_ports",
                          "top_destination_ports"} :
                  key \in DOMAIN Report /\ Report[key] = <<>>
           /\ "packet_size_stats" \in DOMAIN Report
           /\ Report["packet_size_stats"] =
                  [min |-> 0, max |-> 0, average |-> 0, total_bytes |-> 0]

\* the byte sizes of the input records and their sum
SizesIn == {packets_data[i]["packet_size"] : i \in 1..Len(packets_data)}

RECURSIVE BytesIn(_)
BytesIn(n) == IF n = 0 THEN 0 ELSE packets_data[n]["packet_size"] + BytesIn(n - 1)

\* C8: for a non-empty list the report has total_packets = the number of
\* records, total_bytes = the sum of their sizes, min and max = the smallest
\* and the largest size, and average * total_packets = total_bytes, so
\* min <= average <= max.  (The average is the exact quotient.)
C8_SizeStats ==
    (pc = "stats_done" /\ packets_data # <<>>)
        => LET size == Report["packet_size_stats"]
               avg == size["average"]
           IN  /\ Report["total_packets"] = Len(packets_data)
               /\ size["total_bytes"] = BytesIn(Len(packets_data))
               /\ size["min"] \in SizesIn /\ \A x \in SizesIn : size["min"] <= x
               /\ size["max"] \in SizesIn /\ \A x \in SizesIn : size["max"] >= x
               /\ avg["den"] > 0
               /\ avg["num"] * Report["total_packets"] = size["total_bytes"] * avg["den"]
               /\ size["min"] * avg["den"] <= avg["num"]
               /\ avg["num"] <= size["max"] * avg["den"]

\* records of different sizes whose mean is no whole number
C8_Witness ==
    /\ pc = "stats_done"
    /\ Len(packets_data) >= 2
    /\ Report["packet_size_stats"]["average"]["den"] > 1
    /\ Report["packet_size_stats"]["min"] < Report["packet_size_stats"]["max"]

\* The keys a frequency mapping counts are the values that are set and are
\* neither the empty text nor 0 (what it leaves out is the matter of the
\* claim on complete counts).
KeysIn(field, empty) ==
    {packets_data[i][field][1] :
        i \in {j \in 1..Len(packets_data) :
                  /\ packets_data[j][field] # None
                  /\ packets_data[j][field] # Some(empty)}}

Occurrences(field, key) ==
    Cardinality({i \in 1..Len(packets_data) : packets_data[i][field] = Some(key)})

FirstSeen(field, key) ==
    CHOOSE i \in 1..Len(packets_data) :
        /\ packets_data[i][field] = Some(key)
        /\ \A j \in 1..(i - 1) : packets_data[j][field] # Some(key)

\* top is a top-10 selection of the values of field
TopTen(top, field, empty) ==
    LET listed == {top[i][1] : i \in 1..Len(top)}
    IN  /\ Len(top) <= 10
        /\ Len(top) = Min(10, Cardinality(KeysIn(field, empty)))
        /\ \A i \in 1..Len(top) :
               /\ top[i][1] \in KeysIn(field, empty)
               /\ top[i][2] = Occurrences(field, top[i][1])
        /\ \A i, j \in 1..Len(top) : i < j =>
               /\ top[i][1] # top[j][1]
               /\ top[i][2] >= top[j][2]
               /\ top[i][2] = top[j][2]
                      => FirstSeen(field, top[i][1]) < FirstSeen(field, top[j][1])
        /\ \A key \in KeysIn(field, empty) \ listed :
               \A i \in 1..Len(top) :
                   /\ top[i][2] >= Occurrences(field, key)
                   /\ top[i][2] = Occurrences(field, key)
                          => FirstSeen(field, top[i][1]) < FirstSeen(field, key)

\* C9: each of the four top-N mappings has at most 10 entries, lists them by
\* count in non-increasing order, leaves out no key with a count above that
\* of a listed entry, and orders keys of equal count (the listed ones, and a
\* listed one against one left out) by their first appearance in the input:
\* the report is a function of the input sequence.
C9_TopTen ==
    (pc = "stats_done" /\ packets_data # <<>>)
        => /\ TopTen(Report["top_source_ips"], "source_ip", "")
           /\ TopTen(Report["top_destination_ips"], "destination_ip", "")
           /\ TopTen(Report["top_source_ports"], "source_port", 0)
           /\ TopTen(Report["top_destination_ports"], "destination_port", 0)

\* more than 10 source addresses, one of them seen twice and seen last:
\* it is listed first, and a key seen once is left out
C9_Witness ==
    /\ pc = "stats_done" /\ packets_data # <<>>
    /\ Cardinality(KeysIn("source_ip", "")) > 10
    /\ Len(Report["top_source_ips"]) = 10
    /\ Report["top_source_ips"][1][2] = 2
    /\ FirstSeen("source_ip", Report["top_source_ips"][1][1]) > 10

-----------------------------------------------------------------------------
(* Frame classifier *)

Classified == packet_info[1] # None
Record == packet_info[1][1]

\* the first layer of a class in the frame
FirstLayer(cls) ==
    packet.layers[CHOOSE i \in 1..Len(packet.layers) :
                      /\ packet.layers[i].name = cls
                      /\ \A j \in 1..(i - 1) : packet.layers[j].name # cls]

Carries(cls) == \E i \in 1..Len(packet.layers) : packet.layers[i].name = cls

JsonKeys(text) == [i \in 1..Len(text.json) |-> text.json[i][1]]
JsonValues(text) == [i \in 1..Len(text.json) |-> text.json[i][2]]

HasPorts(r) == "source_port" \in DOMAIN r /\ "destination_port" \in DOMAIN r
NoPorts(r) == "source_port" \notin DOMAIN r /\ "destination_port" \notin DOMAIN r

\* C10: a frame with an IPv4 layer, with or without an IPv6 layer, gets its
\* addresses from the IPv4 layer and the label TCP if it has a TCP layer,
\* else UDP if it has a UDP layer, else ICMP if it has an ICMP layer, else
\* IP; ports are set for TCP and UDP only and are the transport layer's;
\* packet_data holds flags, seq, ack, window for TCP, length, checksum for
\* UDP, type, code for ICMP and nothing for IP.
C10_IPv4Precedence ==
    (pc = "classified" /\ Classified /\ Carries("IP"))
        => /\ Record["source_ip"] = FirstLayer("IP").src
           /\ Record["destination_ip"] = FirstLayer("IP").dst
           /\ IF Carries("TCP")
              THEN /\ Record["protocol"] = "TCP"
                   /\ HasPorts(Record)
                   /\ Record["source_port"] = FirstLayer("TCP").sport
                   /\ Record["destination_port"] = FirstLayer("TCP").dport
                   /\ Record["packet_data"] # None
                   /\ JsonKeys(Record["packet_data"][1]) =
                          <<"tcp_flags", "tcp_seq", "tcp_ack", "tcp_window">>
                   /\ JsonValues(Record["packet_data"][1]) =
                          <<FlagStr(FirstLayer("TCP").flags), FirstLayer("TCP").seq,
                            FirstLayer("TCP").ack, FirstLayer("TCP").window>>
              ELSE IF Carries("UDP")
              THEN /\ Record["protocol"] = "UDP"
                   /\ HasPorts(Record)
                   /\ Record["source_port"] = FirstLayer("UDP").sport
                   /\ Record["destination_port"] = FirstLayer("UDP").dport
                   /\ Record["packet_data"] # None
                   /\ Record["packet_data"][1].json =
                          << <<"udp_length", FirstLayer("UDP").len>>,
                             <<"udp_checksum", FirstLayer("UDP").chksum>> >>
              ELSE IF Carries("ICMP")
              THEN /\ Record["protocol"] = "ICMP"
                   /\ NoPorts(Record)
                   /\ Record["packet_data"] # None
                   /\ Record["packet_data"][1].json =
                          << <<"icmp_type", FirstLayer("ICMP").type>>,
                             <<"icmp_code", FirstLayer("ICMP").code>> >>
              ELSE /\ Record["protocol"] = "IP"
                   /\ NoPorts(Record)
                   /\ Record["packet_data"] = None

\* a frame with IPv4, TCP and UDP layers whose ports differ: labelled TCP, with
\* the ports of the TCP layer
C10_Witness ==
    /\ pc = "classified" /\ Classified
    /\ Carries("IP") /\ Carries("TCP") /\ Carries("UDP")
    /\ Record["protocol"] = "TCP"
    /\ Record["source_port"] # FirstLayer("UDP").sport

-----------------------------------------------------------------------------
(* Classification: the fallback, the IPv6 branch and the shape of a record *)

Labels == {"IP", "TCP", "UDP", "ICMP", "IPv6", "TCPv6", "UDPv6", "Other"}

HasAddresses(r) == "source_ip" \in DOMAIN r /\ "destination_ip" \in DOMAIN r
NoAddresses(r) == "source_ip" \notin DOMAIN r /\ "destination_ip" \notin DOMAIN r

\* C11: a frame with neither an IPv4 nor an IPv6 layer is labelled Other, has
\* no source or destination address and no ports, and its packet_data holds
\* the frame summary and the list of the frame's layer names in frame order.
C11_Fallback ==
    (pc = "classified" /\ Classified /\ ~Carries("IP") /\ ~Carries("IPv6"))
        => /\ Record["protocol"] = "Other"
           /\ NoAddresses(Record)
           /\ NoPorts(Record)
           /\ Record["packet_data"] # None
           /\ JsonKeys(Record["packet_data"][1]) =
                  <<"packet_summary", "packet_layers">>
           /\ Record["packet_data"][1].json[1][2] = summary(packet)
           /\ Record["packet_data"][1].json[2][2] =
                  [i \in 1..Len(packet.layers) |-> packet.layers[i].name]

\* a frame of two different layers, one of them a TCP layer without a network
\* layer under it, has been classified as Other
C11_Witness ==
    /\ pc = "classified" /\ Classified
    /\ ~Carries("IP") /\ ~Carries("IPv6") /\ Carries("TCP")
    /\ Len(packet.layers) >= 2
    /\ packet.layers[1].name # packet.layers[2].name
    /\ Record["protocol"] = "Other"

\* C12: every record the classifier returns, for any combination of layers,
\* has exactly one label out of IP, TCP, UDP, ICMP, IPv6, TCPv6, UDPv6 and
\* Other, has both addresses or neither, has both ports or neither, and has a
\* packet_size that is set, not negative and equal to the frame's length.
C12_RecordShape ==
    (pc = "classified" /\ Classified)
        => /\ "protocol" \in DOMAIN Record
           /\ Record["protocol"] \in Labels
           /\ HasAddresses(Record) \/ NoAddresses(Record)
           /\ HasPorts(Record) \/ NoPorts(Record)
           /\ "packet_size" \in DOMAIN Record
           /\ Record["packet_size"] \in Nat
           /\ Record["packet_size"] = packet.len

\* a frame with a link layer, a network layer and a transport layer has been
\* classified into a record with addresses and ports
C12_Witness ==
    /\ pc = "classified" /\ Classified
    /\ Len(packet.layers) = MaxLayers
    /\ packet.layers[1] = Ether
    /\ HasAddresses(Record) /\ HasPorts(Record)
    /\ Record["packet_size"] = packet.len

\* C13: a frame with an IPv6 layer and no IPv4 layer gets its addresses from
\* the IPv6 layer and the label TCPv6 with the TCP ports if it has a TCP
\* layer, else UDPv6 with the UDP ports if it has a UDP layer, else IPv6
\* without ports; in all three cases packet_data is absent.
C13_IPv6 ==
    (pc = "classified" /\ Classified /\ Carries("IPv6") /\ ~Carries("IP"))
        => /\ Record["source_ip"] = FirstLayer("IPv6").src
           /\ Record["destination_ip"] = FirstLayer("IPv6").dst
           /\ Record["packet_data"] = None
           /\ IF Carries("TCP")
              THEN /\ Record["protocol"] = "TCPv6"
                   /\ HasPorts(Record)
                   /\ Record["source_port"] = FirstLayer("TCP").sport
                   /\ Record["destination_port"] = FirstLayer("TCP").dport
              ELSE IF Carries("UDP")
              THEN /\ Record["protocol"] = "UDPv6"
                   /\ HasPorts(Record)
                   /\ Record["source_port"] = FirstLayer("UDP").sport
                   /\ Record["destination_port"] = FirstLayer("UDP").dport
              ELSE /\ Record["protocol"] = "IPv6"
                   /\ NoPorts(Record)

\* a frame with IPv6, UDP and TCP layers, the UDP layer first, has been
\* classified as TCPv6 with the ports of the TCP layer
C13_Witness ==
    /\ pc = "classified" /\ Classified
    /\ Carries("IPv6") /\ ~Carries("IP") /\ Carries("TCP") /\ Carries("UDP")
    /\ Record["protocol"] = "TCPv6"
    /\ Record["source_port"] = FirstLayer("TCP").sport
    /\ Record["source_port"] # FirstLayer("UDP").sport

-----------------------------------------------------------------------------
(* Batch extractor: one faulty frame does not stop the batch *)

\* the frames of the file that are classified: all of them, or the first
\* max_packets_per_file when the cap is set and the file is longer
FramesKept ==
    IF max_packets_per_file >= 1 /\ Len(FramesRead) > max_packets_per_file
    THEN [i \in 1..max_packets_per_file |-> FramesRead[i]]
    ELSE FramesRead

Fails(frame) == _extract_packet_info(frame, FileName) = None

\* the positions of the kept frames that classify, in ascending order
RECURSIVE Ascending(_)
Ascending(S) ==
    IF S = {} THEN <<>>
    ELSE LET least == CHOOSE i \in S : \A j \in S : i <= j
         IN  <<least>> \o Ascending(S \ {least})

Classifying == Ascending({i \in 1..Len(FramesKept) : ~Fails(FramesKept[i])})

\* C14: for every kept frame sequence with any subset of frames failing to
\* classify, parse_pcap_file returns exactly one record per frame that
\* classifies and none for a failing frame, in the order of the frames,
\* without reordering or duplication; a fault at one frame never keeps a
\* later frame from being classified and never aborts the batch.
C14_FailureIsolation ==
    (pc = "parsed" /\ pcap # None)
        => /\ Len(RecordsParsed) = Len(Classifying)
           /\ \A k \in 1..Len(Classifying) :
                  Some(RecordsParsed[k]) =
                      _extract_packet_info(FramesKept[Classifying[k]], FileName)
           /\ \A i, j \in 1..Len(FramesKept) :
                  (i < j /\ Fails(FramesKept[i]) /\ ~Fails(FramesKept[j]))
                      => \E k \in 1..Len(RecordsParsed) :
                             Some(RecordsParsed[k]) =
                                 _extract_packet_info(FramesKept[j], FileName)

\* a file whose first kept frame fails and whose later kept frames classify
\* and differ: the records of the later frames came back
C14_Witness ==
    /\ pc = "parsed" /\ pcap # None
    /\ Len(FramesKept) = MaxFrames
    /\ Fails(FramesKept[1])
    /\ \A i \in 2..Len(FramesKept) : ~Fails(FramesKept[i])
    /\ FramesKept[2] # FramesKept[3]
    /\ Len(RecordsParsed) = Len(FramesKept) - 1

-----------------------------------------------------------------------------
(* Directory extraction *)

Listing == directory[1]
RecordsOfDirectory == all_packets[1]

\* the capture files of the listing, in the order of the listing
CaptureFiles == [k \in 1..Len(PcapFiles(Listing)) |-> PcapFiles(Listing)[k]]

\* what parse_pcap_file returns for the k-th capture file
RecordsOfFile(k) ==
    parse_pcap_file(CaptureFiles[k].file, EntryName(CaptureFiles[k]),
                    max_packets_per_file)

\* the lists of the first k capture files, one after the other
RECURSIVE UpToFile(_)
UpToFile(k) == IF k = 0 THEN <<>> ELSE UpToFile(k - 1) \o RecordsOfFile(k)

InOrderOfFiles ==
    /\ RecordsOfDirectory = UpToFile(Len(CaptureFiles))
    /\ \A k \in 1..Len(CaptureFiles) :
           CaptureFiles[k].file = None
               => \A i \in 1..Len(RecordsOfDirectory) :
                      RecordsOfDirectory[i]["file_name"] # EntryName(CaptureFiles[k])

\* C15 as stated: parse_directory returns the lists parse_pcap_file returns
\* for the files, one after the other in the order the files are iterated,
\* each capped at max_packets_per_file, so that the total is at most the cap
\* times the number of files, whatever the cap; a file that cannot be read
\* contributes no record and does not stop the files after it.
C15_DirectoryOrderAnyCap ==
    (pc = "directory_parsed" /\ directory # None)
        => /\ InOrderOfFiles
           /\ Len(RecordsOfDirectory) <= max_packets_per_file * Len(CaptureFiles)

\* C15, amended: the same, with the bound on the total for a cap of 1 or
\* more; a cap of 0 switches the cap off and every frame of every file is
\* classified.
C15_DirectoryOrder ==
    (pc = "directory_parsed" /\ directory # None)
        => /\ InOrderOfFiles
           /\ max_packets_per_file >= 1
                  => /\ Len(RecordsOfDirectory) <= max_packets_per_file * Len(CaptureFiles)
                     /\ \A k \in 1..Len(CaptureFiles) :
                            Len(RecordsOfFile(k)) <= max_packets_per_file

\* a listing of three capture files, the second one unreadable and the
\* third one longer than the cap: the records of the first file came back
\* before those of the third, and the third was cut at the cap
C15_Witness ==
    /\ pc = "directory_parsed" /\ directory # None
    /\ max_packets_per_file >= 1
    /\ Len(CaptureFiles) = MaxFiles
    /\ CaptureFiles[1].file # None /\ CaptureFiles[2].file = None
    /\ CaptureFiles[3].file # None
    /\ Len(CaptureFiles[3].file[1]) > max_packets_per_file
    /\ Len(RecordsOfDirectory) >= 2
    /\ RecordsOfDirectory[1]["file_name"] = EntryName(CaptureFiles[1])
    /\ RecordsOfDirectory[Len(RecordsOfDirectory)]["file_name"] = EntryName(CaptureFiles[3])
    /\ Len(RecordsOfFile(3)) = max_packets_per_file

\* the list returned for a directory that exists and whose one capture file
\* holds no frame
ReturnedForEmptyCapture ==
    parse_directory(Some(<<Entry("capture1", ".pcap", Some(<<>>))>>),
                    max_packets_per_file)

\* C18: when the directory does not exist or holds no capture file,
\* parse_directory returns an empty result together with a signal, so that
\* the returned value differs from the one returned for a directory whose
\* files were processed and yielded no record.
C18_SourceUnavailable ==
    (pc = "directory_parsed" /\ (directory = None \/ PcapFiles(Listing) = <<>>))
        => /\ RecordsOfDirectory = <<>>
           /\ RecordsOfDirectory # ReturnedForEmptyCapture

-----------------------------------------------------------------------------
(* Storage: one transaction per batch *)

\* the table holds what it held before the call and the rows of the first
\* n records, in the order of the input
CommittedPrefix(n) ==
    store = store_before \o
                [k \in 1..n |-> TrafficPacket(packets_data[k], Len(store_before) + k)]

WholeBatches ==
    /\ \E n \in 0..Len(packets_data) :
           /\ CommittedPrefix(n)
           /\ n = Len(packets_data) \/ n % EffectiveBatchSize(batch_size) = 0
    /\ save_result = Some(FALSE)
           => /\ batch_start < Len(packets_data)
              /\ batch_start % batch_size = 0
              /\ CommittedPrefix(batch_start)
    /\ save_result = Some(TRUE) => CommittedPrefix(Len(packets_data))

RowsKept ==
    /\ Len(store) <= Len(store')
    /\ \A k \in 1..Len(store) : store'[k] = store[k]

\* C16: at every point of save_to_database the committed table is what it
\* held before the call followed by a prefix of packets_data made of whole
\* batches (its length a multiple of the batch size, or all of the input);
\* when batch j fails, False is returned with exactly the batches before j
\* committed and none of batch j or of a later one; committed rows are never
\* removed or changed; without a fault True is returned with every record
\* committed once, in the order of the input.
C16_BatchTransactions ==
    [](pc \in {"save", "save_loop", "saved"} => WholeBatches) /\ [][RowsKept]_vars

\* the second batch failed after the first was committed: False came back,
\* the table holds the rows before the call and the first batch, no more
C16_Witness ==
    /\ pc = "saved" /\ save_result = Some(FALSE)
    /\ batch_size = MaxBatch
    /\ batch_start = batch_size
    /\ Len(packets_data) > batch_start
    /\ store_before # <<>>
    /\ Len(store) = Len(store_before) + batch_size

-----------------------------------------------------------------------------
(* Export: a time bound that is no date *)

\* the filter dict holds the key, and datetime.fromisoformat cannot read it
Unparsable(key) == key \in DOMAIN filters /\ fromisoformat(filters[key]) = None

\* the disk holds nothing but what an earlier run left there
NothingWritten == \A q \in DOMAIN files : files[q] = OldExport

\* C19: when start_time or end_time of the filter dict is unparsable, the
\* filtering fails for every input (also for one the other keys reduce to no
\* record) and no partly filtered result is returned or exported:
\* export_filtered_packets returns False and writes no output file.
C19_InvalidFilterSpec ==
    (pc = "exported" /\ (Unparsable("start_time") \/ Unparsable("end_time")))
        => /\ export_result = Some(FALSE)
           /\ NothingWritten

-----------------------------------------------------------------------------
(* Pipeline: no record parsed *)

\* C17: when the parse stage yields no record (the directory is missing,
\* holds no capture file, holds only files that cannot be read, or every
\* frame fails) run_full_pipeline returns False, no row is written to the
\* table and no export file is written.
C17_ZeroFrames ==
    (all_packets = Some(<<>>))
        => /\ pipeline_stage = "returned"
           /\ pipeline_result = Some(FALSE)
           /\ store = store_before
           /\ save_result = None
           /\ export_result = None
           /\ NothingWritten

\* a directory with a capture file all of whose frames fail, over a table
\* that holds earlier rows: the pipeline returned False
C17_Witness ==
    /\ pipeline_stage = "returned" /\ pipeline_result = Some(FALSE)
    /\ all_packets = Some(<<>>)
    /\ directory # None
    /\ Len(PcapFiles(directory[1])) = 1
    /\ PcapFiles(directory[1])[1].file # None
    /\ Len(PcapFiles(directory[1])[1].file[1]) >= 1
    /\ store_before # <<>>

-----------------------------------------------------------------------------
(* Aggregator: the order of the input *)

ReportPermuted == stats_permuted[1]

\* a counter read as a mapping: its items, whatever their order
AsMapping(items) == {items[i] : i \in 1..Len(items)}

\* two top-N lists with the same counts place by place, whose items are the
\* same but for items of the count at which a full list was cut
SameUpToTies(a, b) ==
    /\ Len(a) = Len(b)
    /\ \A i \in 1..Len(a) : a[i][2] = b[i][2]
    /\ \A i \in 1..Len(a) :
           \/ a[i] \in AsMapping(b)
           \/ Len(a) = 10 /\ a[i][2] = a[Len(a)][2]
    /\ \A i \in 1..Len(b) :
           \/ b[i] \in AsMapping(a)
           \/ Len(b) = 10 /\ b[i][2] = b[Len(b)][2]

\* C20: for every list of records and every permutation of it,
\* _calculate_statistics returns the same total count, the same mapping of
\* protocols to counts and the same size statistics for both; their top-N
\* mappings differ at most in which keys of equal count are kept and in the
\* order of keys of equal count.
C20_OrderIndependent ==
    (pc = "stats_twice_done")
        => /\ DOMAIN Report = DOMAIN ReportPermuted
           /\ packets_data # <<>>
                => /\ Report["total_packets"] = ReportPermuted["total_packets"]
                   /\ AsMapping(Report["protocol_distribution"]) =
                          AsMapping(ReportPermuted["protocol_distribution"])
                   /\ Report["packet_size_stats"] = ReportPermuted["packet_size_stats"]
                   /\ \A key \in {"top_source_ips", "top_destination_ips",
                                  "top_source_ports", "top_destination_ports"} :
                          SameUpToTies(Report[key], ReportPermuted[key])

\* a list with more than ten source addresses and several protocols, and a
\* reordering of it: the two top-10 lists of source addresses keep different
\* addresses of the lowest count, and the protocols are counted in another
\* order
C20_Witness ==
    /\ pc = "stats_twice_done"
    /\ Len(packets_data) > 10
    /\ permuted # packets_data
    /\ AsMapping(Report["top_source_ips"]) # AsMapping(ReportPermuted["top_source_ips"])
    /\ Report["protocol_distribution"] # ReportPermuted["protocol_distribution"]
    /\ Report["packet_size_stats"]["min"] < Report["packet_size_stats"]["max"]

-----------------------------------------------------------------------------
(* The scenario of three frames *)

\* C21: the frames (IPv4/TCP, 80 bytes), (IPv4/UDP, 60 bytes) and (no
\* network layer, 40 bytes), classified and then filtered with
\* {protocol: "TCP"}, yield exactly the first record; the statistics of the
\* three records count TCP 1, UDP 1 and Other 1 and give the sizes min 40,
\* max 80, average 60 and total 180.
C21_Scenario ==
    (pc = "scenario_done")
        => /\ Len(packets_data) = 3
           /\ FilterReturned
           /\ FilterResult = <<packets_data[1]>>
           /\ packets_data[1]["protocol"] = Some("TCP")
           /\ packets_data[1]["packet_size"] = 80
           /\ packets_data[1]["source_ip"] = Some(getlayer(pcap[1][1], "IP").src)
           /\ Report["total_packets"] = 3
           /\ AsMapping(Report["protocol_distribution"]) =
                  {<<"TCP", 1>>, <<"UDP", 1>>, <<"Other", 1>>}
           /\ Len(Report["protocol_distribution"]) = 3
           /\ Report["packet_size_stats"]["min"] = 40
           /\ Report["packet_size_stats"]["max"] = 80
           /\ Report["packet_size_stats"]["average"]["num"] =
                  60 * Report["packet_size_stats"]["average"]["den"]
           /\ Report["packet_size_stats"]["total_bytes"] = 180

\* the three frames, the third one a TCP segment without a network layer,
\* have gone through the three engines: one record was returned by the
\* filter and the report counts three records
C21_Witness ==
    /\ pc = "scenario_done"
    /\ haslayer(pcap[1][3], "TCP")
    /\ Len(FilterResult) = 1
    /\ Report["total_packets"] = 3
    /\ Report["packet_size_stats"]["total_bytes"] = 180

-----------------------------------------------------------------------------
(* Aggregator: the frequency counts *)

\* the values of a column in the input, NULL left aside
ValuesOf(field) ==
    {packets_data[i][field][1] :
        i \in {j \in 1..Len(packets_data) : packets_data[j][field] # None}}

\* the count a counter holds for a key, 0 when the key is not in it
CountFor(counter, key) ==
    IF \E i \in 1..Len(counter) : counter[i][1] = key
    THEN counter[CHOOSE i \in 1..Len(counter) : counter[i][1] = key][2]
    ELSE 0

RECURSIVE SumOfCounts(_)
SumOfCounts(counter) ==
    IF counter = <<>> THEN 0 ELSE Head(counter)[2] + SumOfCounts(Tail(counter))

\* C22: for every address and every port v, port 0 included, the count
\* _calculate_statistics accumulates for v in the source (destination)
\* mapping is the number of records whose source (destination) field is v,
\* and the protocol counts sum to the number of records; so with at most 10
\* distinct values every record that carries ports is in the port
\* statistics.
C22_CountsComplete ==
    (pc = "stats_done" /\ packets_data # <<>>)
        => /\ \A field \in {"source_ip", "destination_ip"} :
                  \A v \in ValuesOf(field) :
                      CountFor(CountAddresses(packets_data, field, <<>>), v) =
                          Occurrences(field, v)
           /\ \A field \in {"source_port", "destination_port"} :
                  \A v \in ValuesOf(field) :
                      CountFor(CountPorts(packets_data, field, <<>>), v) =
                          Occurrences(field, v)
           /\ SumOfCounts(Report["protocol_distribution"]) = Len(packets_data)
           /\ \A field \in {"source_port", "destination_port"} :
                  Cardinality(ValuesOf(field)) <= 10
                      => SumOfCounts(Report["top_" \o field \o "s"]) =
                             Cardinality({i \in 1..Len(packets_data) :
                                             packets_data[i][field] # None})

-----------------------------------------------------------------------------
(* Pipeline: the order of the stages *)

\* the steps run_full_pipeline can take from one stage to another
StageSteps ==
    {<<"initialize", "parse">>, <<"parse", "save">>, <<"save", "export">>,
     <<"initialize", "returned">>, <<"parse", "returned">>,
     <<"save", "returned">>, <<"export", "returned">>}

StagesInOrder ==
    /\ pipeline_stage' # pipeline_stage
           => <<pipeline_stage, pipeline_stage'>> \in StageSteps
    /\ store' # store => pipeline_stage = "save"
    /\ files' # files => pipeline_stage = "export"

ExportAfterSave ==
    /\ (pipeline_stage = "export" \/ export_result # None)
           => /\ save_result = Some(TRUE)
              /\ CommittedPrefix(Len(packets_data))
    /\ save_result = Some(FALSE)
           => /\ NothingWritten
              /\ export_result = None
              /\ pipeline_stage = "returned" => pipeline_result = Some(FALSE)
    /\ pipeline_result = Some(TRUE)
           => /\ all_packets # None
              /\ Len(all_packets[1]) >= 1
              /\ save_result = Some(TRUE)
              /\ export_result = Some(TRUE)

\* C23: in every run of run_full_pipeline the stages come in the order
\* initialize, parse, save, export; export_to_json starts only after
\* save_to_database has returned True with every batch committed; no export
\* file is written in a run in which saving failed; and True is returned
\* only if parsing produced a record and save and export both reported
\* success.
C23_StageOrder ==
    [](pipeline_stage # "none" => ExportAfterSave) /\ [][StagesInOrder]_vars

\* a run that parsed records of two files, committed them behind the rows
\* of an earlier run, wrote the export file and returned True
C23_Witness ==
    /\ pipeline_stage = "returned" /\ pipeline_result = Some(TRUE)
    /\ Len(all_packets[1]) >= 2
    /\ store_before # <<>>
    /\ Len(store) = Len(store_before) + Len(all_packets[1])
    /\ output_file \in DOMAIN files
    /\ files[output_file] # OldExport

-----------------------------------------------------------------------------
(* Export: the statistics file *)

StatisticsPath == StatisticsFile(output_file)

\* the disk holds a statistics report at the path of the statistics file
StatisticsWritten ==
    /\ StatisticsPath \in DOMAIN files
    /\ "statistics" \in DOMAIN files[StatisticsPath]

\* the packet export of this call succeeds: there are rows, the filter dict
\* can be read and the export file can be written
PacketExportSucceeds ==
    /\ store # <<>>
    /\ _apply_filters(export_to_dict(store), filters).raised = None
    /\ output_file \notin unwritable

\* C24: in export_to_json the statistics report is written only after the
\* packet export has succeeded and only when include_statistics is set; it
\* is computed over all rows read from the table, also when a filter
\* restricted the exported packets; a failure of the statistics export
\* never changes the value export_to_json returns; when the table holds no
\* row, export_to_json returns False and writes neither file.
C24_StatisticsStep ==
    (pc = "json_exported")
        => /\ StatisticsWritten
                => /\ include_statistics
                   /\ PacketExportSucceeds
                   /\ StatisticsPath # output_file
                          => /\ output_file \in DOMAIN files
                             /\ "packets" \in DOMAIN files[output_file]
                             /\ files[output_file] # OldExport
                   /\ files[StatisticsPath]["metadata"]["total_packets"] = Len(store)
                   /\ files[StatisticsPath]["statistics"]["total_packets"] = Len(store)
                   /\ files[StatisticsPath]["statistics"] =
                          _calculate_statistics(export_to_dict(store))
           /\ export_result = Some(PacketExportSucceeds)
           /\ store = <<>>
                => /\ export_result = Some(FALSE)
                   /\ NothingWritten

\* three rows exported under a filter that keeps one of them: the export
\* file holds one packet, the statistics file counts three
C24_Witness ==
    /\ pc = "json_exported"
    /\ export_result = Some(TRUE)
    /\ Len(store) = 3
    /\ StatisticsPath # output_file
    /\ StatisticsWritten
    /\ Len(files[output_file]["packets"]) = 1
    /\ files[StatisticsPath]["statistics"]["total_packets"] = 3

====
